---- MODULE Spec2Model ----
(***************************************************************************)
(* dsbot: the indicator computation engine (package indicator) and the     *)
(* calls its clients make on it.                                           *)
(*                                                                         *)
(* float64 values are modelled as exact rationals [n |-> numerator,        *)
(* d |-> denominator] in lowest terms with d > 0.  A record with d = 0 is  *)
(* not a number: NonFinite is the result of a float division by zero       *)
(* (Go yields +Inf, -Inf or NaN and goes on), OutOfRange is the value      *)
(* "read" by an index or slice expression outside the bounds of its slice  *)
(* (Go panics).  Both propagate through every arithmetic operator and make *)
(* every comparison false, so a call whose result holds one of them has    *)
(* hit the corresponding fault.                                            *)
(***************************************************************************)
EXTENDS Integers, Sequences, FiniteSets, TLC

VARIABLES
    config,     \* Calculator.config: the Parameter Set bound to the calculator
    values,     \* the []float64 argument of a single indicator function
    period,     \* the period argument of a single indicator function (slow of
                \* calculateMACDValues)
    fastPeriod, \* the fast argument of calculateMACDValues
    fn,         \* the indicator function that has been applied ("" = none yet)
    ret,        \* what that function returned
    ohlcvList,  \* the []models.OHLCV handed to the Calculator's public methods
    calls,      \* the public methods called so far on ohlcvList, in order
    tech,       \* the caller's *models.TechnicalData (Nil until Calculate sets it)
    trend,      \* the caller's *models.TrendAnalysis
    levels      \* the caller's *models.LevelsAnalysis

\* the risk manager (internal/strategy/risk_manager.go) and the exchange it
\* watches
VARIABLES
    rmConfig,        \* config.Trading.RiskManagement
    running,         \* RiskManager.running
    heap,            \* the models.Position objects allocated so far; a
                     \* *models.Position is an index into heap, 0 is nil
    currentPosition, \* RiskManager.currentPosition
    checker,         \* per goroutine that runs checkPosition: where it is
                     \* (pc) and its locals pos and currentPrice
    ticks,           \* ticker events consumed by monitorLoop
    exchPosition,    \* the position the exchange holds for the symbol
    orders           \* the reduceOnly orders closePosition has placed

indVars == <<config, values, period, fastPeriod, fn, ret, ohlcvList, calls, tech, trend, levels>>
riskVars == <<rmConfig, running, heap, currentPosition, checker, ticks, exchPosition, orders>>

\* one trading cycle of the bot (internal/strategy/bot.go)
VARIABLES
    botConfig,   \* config.Trading: TestMode and the trading mode
    fetched,     \* what FetchOHLCV returned to fetchMarketData
    botPosition, \* bot.currentPosition
    botPc,       \* how far Run has come
    marketData,  \* what fetchMarketData returned
    signal,      \* what AnalyzeMarket returned
    placed       \* the PlaceOrder calls executeTrade has made, in order

botVars == <<botConfig, fetched, botPosition, botPc, marketData, signal, placed>>

\* the AI client's session contexts (internal/ai/deepseek.go)
VARIABLES
    sessions,    \* DeepSeekClient.sessions: per trading pair Nil or the
                 \* SessionContext
    recorded     \* per trading pair, every signal updateSession was handed,
                 \* in arrival order

sessVars == <<sessions, recorded>>
coreVars == <<riskVars, botVars, sessVars>>

\* main's calculateAlignPoints (cmd/api/main.go)
VARIABLES
    intervalMinutes, \* config.Trading.ScheduleIntervalMinutes
    minute,          \* the loop variable of calculateAlignPoints
    points,          \* the slice calculateAlignPoints builds
    alignPc          \* "loop" while calculateAlignPoints runs

\* a Scheduler (internal/timedschedulers/scheduler.go)
VARIABLES
    schedConfig, \* the options the Scheduler was built with
    sRunning,    \* Scheduler.running
    cancelled,   \* s.cancel() has been called: s.ctx.Done() is closed
    loops,       \* the run goroutines spawned so far: where each one is
    clientPc,    \* the goroutine calling Start and Stop: idle or inside Stop
    lastCall,    \* the last call that returned to the client and its result
    executions   \* the finished executions of the task with the callbacks
                 \* each one triggered

alignVars == <<intervalMinutes, minute, points, alignPc>>
schedVars == <<schedConfig, sRunning, cancelled, loops, clientPc, lastCall, executions>>
restVars == <<alignVars, schedVars>>
sysVars == <<coreVars, restVars>>

vars == <<indVars, sysVars>>

(***************************************************************************)
(* Bounds of the model.                                                    *)
(***************************************************************************)
\* longest value / bar sequence whose elements are drawn freely
MaxLen == 3
\* longest sequence of the structured families (plateau then one move, ramp)
MaxLong == 16
\* longest bar list of the plateau family (longer than the presets' MACD slow,
\* Bollinger, RSI and lookback periods)
MaxBars == 31
\* largest freely drawn period argument (the presets' RSI periods are added)
MaxPeriod == 2
\* math.Sqrt is computed to 1/SqrtScale
SqrtScale == 1000

(***************************************************************************)
(* float64 arithmetic                                                      *)
(***************************************************************************)
Abs(x) == IF x < 0 THEN -x ELSE x

RECURSIVE Gcd(_, _)
Gcd(a, b) == IF b = 0 THEN a ELSE Gcd(b, a % b)

\* the float64 n/d, d > 0, in lowest terms
Frac(n, d) == LET g == Gcd(Abs(n), d) IN [n |-> n \div g, d |-> d \div g]

\* float64(i) of an int, and an integer-valued literal
F(i) == [n |-> i, d |-> 1]

NonFinite == [n |-> 0, d |-> 0]
OutOfRange == [n |-> 1, d |-> 0]

IsNum(a) == a.d > 0

\* the non-number an operation on a and b yields when one of them is none
Bad(a, b) == IF a = OutOfRange \/ b = OutOfRange THEN OutOfRange ELSE NonFinite

FNeg(a) == IF IsNum(a) THEN [n |-> -a.n, d |-> a.d] ELSE a

FAdd(a, b) ==
    IF ~(IsNum(a) /\ IsNum(b)) THEN Bad(a, b)
    ELSE LET g == Gcd(a.d, b.d)
         IN  Frac(a.n * (b.d \div g) + b.n * (a.d \div g), (a.d \div g) * b.d)

FSub(a, b) == FAdd(a, FNeg(b))

FMul(a, b) ==
    IF ~(IsNum(a) /\ IsNum(b)) THEN Bad(a, b)
    ELSE LET g1 == Gcd(Abs(a.n), b.d)
             g2 == Gcd(Abs(b.n), a.d)
         IN  IF a.n = 0 \/ b.n = 0 THEN F(0)
             ELSE [n |-> (a.n \div g1) * (b.n \div g2), d |-> (a.d \div g2) * (b.d \div g1)]

\* a / b: a zero divisor gives no panic in Go but a non-finite float
FDiv(a, b) ==
    IF ~(IsNum(a) /\ IsNum(b)) THEN Bad(a, b)
    ELSE IF b.n = 0 THEN NonFinite
    ELSE FMul(a, IF b.n > 0 THEN [n |-> b.d, d |-> b.n] ELSE [n |-> -b.d, d |-> -b.n])

\* a comparison with a non-number is false; two numbers are compared over
\* their common denominator
FLt(a, b) ==
    /\ IsNum(a)
    /\ IsNum(b)
    /\ LET g == Gcd(a.d, b.d) IN a.n * (b.d \div g) < b.n * (a.d \div g)
FGt(a, b) == FLt(b, a)
FLe(a, b) ==
    /\ IsNum(a)
    /\ IsNum(b)
    /\ LET g == Gcd(a.d, b.d) IN a.n * (b.d \div g) <= b.n * (a.d \div g)
FGe(a, b) == FLe(b, a)
FEq(a, b) == IsNum(a) /\ IsNum(b) /\ a = b

\* the largest r in lo..hi with r*r <= x (lo*lo <= x < (hi+1)*(hi+1))
RECURSIVE ISqrt(_, _, _)
ISqrt(x, lo, hi) ==
    IF lo >= hi THEN lo
    ELSE LET mid == (lo + hi + 1) \div 2
         IN  IF mid * mid <= x THEN ISqrt(x, mid, hi) ELSE ISqrt(x, lo, mid - 1)

\* math.Sqrt of a non-negative float, rounded down to a multiple of 1/SqrtScale
Sqrt(a) ==
    IF ~IsNum(a) THEN a
    ELSE IF a.n < 0 THEN NonFinite
    ELSE Frac(ISqrt((a.n * SqrtScale * SqrtScale) \div a.d, 0, 46340), SqrtScale)

(***************************************************************************)
(* Go slices: 0-based indexing and slicing, bounds-checked                 *)
(***************************************************************************)
\* s[i]
At(s, i) == IF i >= 0 /\ i < Len(s) THEN s[i + 1] ELSE OutOfRange

\* s[lo:hi]; a slice expression out of range panics like an index does
Slice(s, lo, hi) ==
    IF 0 <= lo /\ lo <= hi /\ hi <= Len(s) THEN SubSeq(s, lo + 1, hi)
    ELSE <<OutOfRange>>

(***************************************************************************)
(* Parameter Sets (IndicatorConfig)                                        *)
(***************************************************************************)
DefaultConfig ==
    [SMA5Period |-> 5, SMA20Period |-> 20, SMA50Period |-> 50,
     EMA12Period |-> 12, EMA26Period |-> 26,
     MACDFastPeriod |-> 12, MACDSlowPeriod |-> 26, MACDSignalPeriod |-> 9,
     RSIPeriod |-> 14, RSINeutralValue |-> F(50), RSIMaxValue |-> F(100),
     BBPeriod |-> 20, BBStdDev |-> F(2), BBMinThreshold |-> Frac(1, 10000),
     BBDefaultPos |-> Frac(1, 2), BBUpperAdjust |-> Frac(1001, 1000),
     BBLowerAdjust |-> Frac(999, 1000),
     VolumeMAPeriod |-> 20, DefaultVolumeRatio |-> F(1),
     SupportResistanceLookback |-> 20]

AggressiveConfig ==
    [SMA5Period |-> 3, SMA20Period |-> 10, SMA50Period |-> 30,
     EMA12Period |-> 12, EMA26Period |-> 26,
     MACDFastPeriod |-> 12, MACDSlowPeriod |-> 26, MACDSignalPeriod |-> 9,
     RSIPeriod |-> 10, RSINeutralValue |-> F(50), RSIMaxValue |-> F(100),
     BBPeriod |-> 15, BBStdDev |-> F(2), BBMinThreshold |-> Frac(1, 10000),
     BBDefaultPos |-> Frac(1, 2), BBUpperAdjust |-> Frac(1001, 1000),
     BBLowerAdjust |-> Frac(999, 1000),
     VolumeMAPeriod |-> 15, DefaultVolumeRatio |-> F(1),
     SupportResistanceLookback |-> 15]

ConservativeConfig ==
    [SMA5Period |-> 10, SMA20Period |-> 30, SMA50Period |-> 100,
     EMA12Period |-> 12, EMA26Period |-> 26,
     MACDFastPeriod |-> 12, MACDSlowPeriod |-> 26, MACDSignalPeriod |-> 9,
     RSIPeriod |-> 21, RSINeutralValue |-> F(50), RSIMaxValue |-> F(100),
     BBPeriod |-> 30, BBStdDev |-> Frac(5, 2), BBMinThreshold |-> Frac(1, 10000),
     BBDefaultPos |-> Frac(1, 2), BBUpperAdjust |-> Frac(1001, 1000),
     BBLowerAdjust |-> Frac(999, 1000),
     VolumeMAPeriod |-> 30, DefaultVolumeRatio |-> F(1),
     SupportResistanceLookback |-> 30]

\* the three named presets
Presets == {DefaultConfig, AggressiveConfig, ConservativeConfig}

(***************************************************************************)
(* The indicator functions (methods of Calculator; c is c.config)          *)
(***************************************************************************)
\* for i := startIdx; i < len(values); i++ { sum += values[i] }
\* st holds the loop's variables i and sum
RECURSIVE smaLoop(_, _)
smaLoop(vs, st) ==
    IF st.i < Len(vs)
    THEN smaLoop(vs, [i |-> st.i + 1, sum |-> FAdd(st.sum, At(vs, st.i))])
    ELSE st.sum

\* fault injection: the window starts one element late
MutSMAOffByOne(vs, p) ==
    IF Len(vs) = 0 THEN F(0)
    ELSE LET per == IF Len(vs) < p THEN Len(vs) ELSE p
         IN  IF per = 0 THEN F(0)
             ELSE FDiv(smaLoop(vs, [i |-> Len(vs) - per + 1, sum |-> F(0)]), F(per))

\* fault injection: the period is not shrunk to the available history
MutSMANoShrink(vs, p) ==
    IF Len(vs) = 0 \/ p = 0 THEN F(0)
    ELSE FDiv(smaLoop(vs, [i |-> Len(vs) - p, sum |-> F(0)]), F(p))

calculateSMA(vs, p) ==
    IF Len(vs) = 0 THEN F(0)
    ELSE LET per == IF Len(vs) < p THEN Len(vs) ELSE p
         IN  IF per = 0 THEN F(0)
             ELSE FDiv(smaLoop(vs, [i |-> Len(vs) - per, sum |-> F(0)]), F(per))

\* fault injection: the two weights are swapped
MutEmaStepSwapped(value, multiplier, ema) ==
    FAdd(FMul(value, FSub(F(1), multiplier)), FMul(ema, multiplier))

\* ema = (values[i] * multiplier) + (ema * (1 - multiplier))
emaStep(value, multiplier, ema) ==
    FAdd(FMul(value, multiplier), FMul(ema, FSub(F(1), multiplier)))

\* for i := period; i < len(values); i++ { ema = ... }
\* st holds the loop's variables i and ema
RECURSIVE emaLoop(_, _, _)
emaLoop(vs, multiplier, st) ==
    IF st.i < Len(vs)
    THEN emaLoop(vs, multiplier,
                 [i |-> st.i + 1, ema |-> emaStep(At(vs, st.i), multiplier, st.ema)])
    ELSE st.ema

\* fault injection: the recurrence is seeded with the first value
MutEMASeedFirst(vs, p) ==
    IF Len(vs) = 0 THEN F(0)
    ELSE IF Len(vs) < p THEN calculateSMA(vs, Len(vs))
    ELSE emaLoop(vs, FDiv(F(2), F(p + 1)), [i |-> 1, ema |-> At(vs, 0)])

calculateEMA(vs, p) ==
    IF Len(vs) = 0 THEN F(0)
    ELSE IF Len(vs) < p THEN calculateSMA(vs, Len(vs))
    ELSE LET multiplier == FDiv(F(2), F(p + 1))
             seed == calculateSMA(Slice(vs, 0, p), p)
         IN  emaLoop(vs, multiplier, [i |-> p, ema |-> seed])

calculateEMAFromValues(vs, p) == calculateEMA(vs, p)

\* changes[i-1] = values[i] - values[i-1], i = 1 .. len(values)-1
priceChanges(vs) == [i \in 1..(Len(vs) - 1) |-> FSub(At(vs, i), At(vs, i - 1))]

rsiGains(changes) ==
    [i \in 1..Len(changes) |-> IF FGt(changes[i], F(0)) THEN changes[i] ELSE F(0)]

\* fault injection: a loss keeps its sign
MutLossesSigned(changes) ==
    [i \in 1..Len(changes) |-> IF FGt(changes[i], F(0)) THEN F(0) ELSE changes[i]]

rsiLosses(changes) ==
    [i \in 1..Len(changes) |->
        IF FGt(changes[i], F(0)) THEN F(0) ELSE FNeg(changes[i])]

\* for i := 0; i < period; i++ { avg += xs[i] }
\* st holds the loop's variables i and avg
RECURSIVE rsiSeedLoop(_, _, _)
rsiSeedLoop(xs, p, st) ==
    IF st.i < p
    THEN rsiSeedLoop(xs, p, [i |-> st.i + 1, avg |-> FAdd(st.avg, At(xs, st.i))])
    ELSE st.avg

\* for i := period; i < len(xs); i++ { avg = (avg*(period-1) + xs[i]) / period }
\* st holds the loop's variables i and avg
RECURSIVE wilderLoop(_, _, _)
wilderLoop(xs, p, st) ==
    IF st.i < Len(xs)
    THEN wilderLoop(xs, p,
                    [i |-> st.i + 1,
                     avg |-> FDiv(FAdd(FMul(st.avg, F(p - 1)), At(xs, st.i)), F(p))])
    ELSE st.avg

\* avgGain / avgLoss: the mean of the first p entries, then Wilder's smoothing
rsiAverage(xs, p) ==
    LET seed == FDiv(rsiSeedLoop(xs, p, [i |-> 0, avg |-> F(0)]), F(p))
    IN  wilderLoop(xs, p, [i |-> p, avg |-> seed])

\* fault injection: too little history yields 0
MutRsiInsufficientZero(c) == F(0)

\* the value returned when there is too little history (数据不足时返回中性值)
rsiInsufficient(c) == c.RSINeutralValue

\* fault injection: a zero avgLoss always yields the maximum
MutRsiValueNoFlatCase(c, avgGain, avgLoss) ==
    IF FEq(avgLoss, F(0)) THEN c.RSIMaxValue
    ELSE FSub(c.RSIMaxValue,
              FDiv(c.RSIMaxValue, FAdd(F(1), FDiv(avgGain, avgLoss))))

\* the RSI of the smoothed averages, with the guard against a zero avgLoss
rsiValue(c, avgGain, avgLoss) ==
    IF FEq(avgLoss, F(0))
    THEN IF FEq(avgGain, F(0)) THEN c.RSINeutralValue ELSE c.RSIMaxValue
    ELSE LET rs == FDiv(avgGain, avgLoss)
         IN  FSub(c.RSIMaxValue, FDiv(c.RSIMaxValue, FAdd(F(1), rs)))

calculateRSI(c, vs, p) ==
    IF Len(vs) < p + 1 THEN rsiInsufficient(c)
    ELSE LET changes == priceChanges(vs)
         IN  IF Len(changes) < p THEN rsiInsufficient(c)
             ELSE rsiValue(c, rsiAverage(rsiGains(changes), p),
                              rsiAverage(rsiLosses(changes), p))

\* for i := i; i < len(values); i++ { diff := values[i] - middle; variance += diff*diff }
\* st holds the loop's variables i and variance
RECURSIVE varianceLoop(_, _, _)
varianceLoop(vs, middle, st) ==
    IF st.i < Len(vs)
    THEN LET diff == FSub(At(vs, st.i), middle)
         IN  varianceLoop(vs, middle,
                          [i |-> st.i + 1,
                           variance |-> FAdd(st.variance, FMul(diff, diff))])
    ELSE st.variance

\* fault injection: equal bands are returned as they are
MutBbCorrectNone(c, middle, upper, lower) ==
    [middle |-> middle, upper |-> upper, lower |-> lower]

\* the zero-width correction of calculateBollingerBands
bbCorrect(c, middle, upper, lower) ==
    IF FEq(upper, lower)
    THEN [middle |-> middle,
          upper |-> FMul(middle, c.BBUpperAdjust),
          lower |-> FMul(middle, c.BBLowerAdjust)]
    ELSE [middle |-> middle, upper |-> upper, lower |-> lower]

calculateBollingerBands(c, vs, p, stdDev) ==
    IF Len(vs) = 0 THEN [middle |-> F(0), upper |-> F(0), lower |-> F(0)]
    ELSE LET per == IF Len(vs) < p THEN Len(vs) ELSE p
         IN  IF per = 0 THEN [middle |-> F(0), upper |-> F(0), lower |-> F(0)]
             ELSE LET middle == calculateSMA(vs, per)
                      variance == varianceLoop(vs, middle, [i |-> Len(vs) - per, variance |-> F(0)])
                      std == Sqrt(FDiv(variance, F(per)))
                  IN  bbCorrect(c, middle,
                                FAdd(middle, FMul(std, stdDev)),
                                FSub(middle, FMul(std, stdDev)))

\* fault injection: the history holds the current MACD value only
MutMACDValuesCurrentOnly(closes, fast, slow) ==
    IF Len(closes) < slow THEN <<F(0)>>
    ELSE <<FSub(calculateEMA(closes, fast), calculateEMA(closes, slow))>>

\* for i := slow; i <= len(closes); i++ { subset := closes[:i]; append(ema12 - ema26) }
calculateMACDValues(closes, fast, slow) ==
    IF Len(closes) < slow THEN <<F(0)>>
    ELSE LET macdValues ==
                 [k \in 1..(Len(closes) - slow + 1) |->
                     LET subset == Slice(closes, 0, slow + k - 1)
                     IN  FSub(calculateEMA(subset, fast), calculateEMA(subset, slow))]
         IN  IF Len(macdValues) = 0
             THEN <<FSub(calculateEMA(closes, fast), calculateEMA(closes, slow))>>
             ELSE macdValues

extractCloses(list) == [i \in 1..Len(list) |-> list[i].Close]
extractHighs(list) == [i \in 1..Len(list) |-> list[i].High]
extractLows(list) == [i \in 1..Len(list) |-> list[i].Low]
extractVolumes(list) == [i \in 1..Len(list) |-> list[i].Volume]

\* for _, v := range values { if v > maxVal { maxVal = v } }
\* st holds the loop's position i and maxVal
RECURSIVE maxLoop(_, _)
maxLoop(vs, st) ==
    IF st.i < Len(vs)
    THEN maxLoop(vs, [i |-> st.i + 1,
                      maxVal |-> IF FGt(At(vs, st.i), st.maxVal)
                                 THEN At(vs, st.i) ELSE st.maxVal])
    ELSE st.maxVal

max(vs) == IF Len(vs) = 0 THEN F(0) ELSE maxLoop(vs, [i |-> 0, maxVal |-> At(vs, 0)])

\* for _, v := range values { if v < minVal { minVal = v } }
\* st holds the loop's position i and minVal
RECURSIVE minLoop(_, _)
minLoop(vs, st) ==
    IF st.i < Len(vs)
    THEN minLoop(vs, [i |-> st.i + 1,
                      minVal |-> IF FLt(At(vs, st.i), st.minVal)
                                 THEN At(vs, st.i) ELSE st.minVal])
    ELSE st.minVal

min(vs) == IF Len(vs) = 0 THEN F(0) ELSE minLoop(vs, [i |-> 0, minVal |-> At(vs, 0)])

(***************************************************************************)
(* The public methods of Calculator                                        *)
(***************************************************************************)
\* a nil pointer: the explicit no-result
Nil == [nil |-> TRUE]

\* the outcome of a call that panicked (index or slice out of range)
Panic == [panic |-> TRUE]

\* fault injection: the position is computed whatever the band width
MutBbPositionUnguarded(c, closes, bbUpper, bbLower) ==
    FDiv(FSub(At(closes, Len(closes) - 1), bbLower), FSub(bbUpper, bbLower))

\* fault injection: the position is hard-clamped to [0, 1]
MutBbPositionClamped(c, closes, bbUpper, bbLower) ==
    IF FGt(bbUpper, bbLower) /\ FGt(FSub(bbUpper, bbLower), c.BBMinThreshold)
    THEN LET currentPrice == At(closes, Len(closes) - 1)
             pos == FDiv(FSub(currentPrice, bbLower), FSub(bbUpper, bbLower))
         IN  IF FGt(pos, F(1)) THEN F(1) ELSE IF FLt(pos, F(0)) THEN F(0) ELSE pos
    ELSE c.BBDefaultPos

\* the position of the latest close within the bands, guarded against a zero width
bbPosition(c, closes, bbUpper, bbLower) ==
    IF FGt(bbUpper, bbLower) /\ FGt(FSub(bbUpper, bbLower), c.BBMinThreshold)
    THEN LET currentPrice == At(closes, Len(closes) - 1)
         IN  FDiv(FSub(currentPrice, bbLower), FSub(bbUpper, bbLower))
    ELSE c.BBDefaultPos

\* fault injection: the ratio is computed whatever the average volume
MutVolumeRatioUnguarded(c, volumes, volumeMA) ==
    FDiv(At(volumes, Len(volumes) - 1), volumeMA)

\* the latest volume over the average volume, guarded against a zero average
volumeRatio(c, volumes, volumeMA) ==
    IF Len(volumes) > 0 /\ FGt(volumeMA, F(0))
    THEN FDiv(At(volumes, Len(volumes) - 1), volumeMA)
    ELSE c.DefaultVolumeRatio

\* fault injection: the window is the whole list
MutLookbackAll(c, n) == n

\* min(SupportResistanceLookback, len(highs))
lookbackPeriod(c, n) ==
    IF n < c.SupportResistanceLookback THEN n ELSE c.SupportResistanceLookback

\* the fields of the TechnicalData that Calculate fills for a non-empty list
technicalData(c, list) ==
    LET closes == extractCloses(list)
        highs == extractHighs(list)
        lows == extractLows(list)
        volumes == extractVolumes(list)
        ema12 == calculateEMA(closes, c.EMA12Period)
        ema26 == calculateEMA(closes, c.EMA26Period)
        macd == FSub(ema12, ema26)
        macdValues == calculateMACDValues(closes, c.MACDFastPeriod, c.MACDSlowPeriod)
        macdSignal == calculateEMAFromValues(macdValues, c.MACDSignalPeriod)
        bb == calculateBollingerBands(c, closes, c.BBPeriod, c.BBStdDev)
        volumeMA == calculateSMA(volumes, c.VolumeMAPeriod)
        lookback == lookbackPeriod(c, Len(highs))
        startIdx == Len(highs) - lookback
        currentPrice == At(closes, Len(closes) - 1)
    IN  [SMA5 |-> calculateSMA(closes, c.SMA5Period),
         SMA20 |-> calculateSMA(closes, c.SMA20Period),
         SMA50 |-> calculateSMA(closes, c.SMA50Period),
         RSI |-> calculateRSI(c, closes, c.RSIPeriod),
         VolumeMA |-> volumeMA,
         EMA12 |-> ema12,
         EMA26 |-> ema26,
         MACD |-> macd,
         MACDSignal |-> macdSignal,
         MACDHistogram |-> FSub(macd, macdSignal),
         BBMiddle |-> bb.middle,
         BBUpper |-> bb.upper,
         BBLower |-> bb.lower,
         BBPosition |-> bbPosition(c, closes, bb.upper, bb.lower),
         VolumeRatio |-> volumeRatio(c, volumes, volumeMA),
         Resistance |-> IF lookback > 0 THEN max(Slice(highs, startIdx, Len(highs)))
                        ELSE currentPrice,
         Support |-> IF lookback > 0 THEN min(Slice(lows, startIdx, Len(lows)))
                     ELSE currentPrice]

\* a call panics when one of the values it computed came from outside a slice
Panics(rec) == \E k \in DOMAIN rec : rec[k] = OutOfRange

\* fault injection: the empty list is not rejected
MutCalculateNoEmptyCheck(c, list) ==
    LET data == technicalData(c, list)
    IN  IF Panics(data) THEN Panic ELSE data

Calculate(c, list) ==
    IF Len(list) = 0 THEN Nil
    ELSE LET data == technicalData(c, list)
         IN  IF Panics(data) THEN Panic ELSE data

\* the labels of the TrendAnalysis ("上涨", "下跌", "强势上涨", "强势下跌", "震荡整理")
LabelUp == "up"
LabelDown == "down"
LabelStrongUp == "strong up"
LabelStrongDown == "strong down"
LabelRanging == "ranging"

\* fault injection: a price equal to the average counts as rising
MutTrendLabelTieUp(currentPrice, average) ==
    IF FGe(currentPrice, average) THEN LabelUp ELSE LabelDown

\* label := "下跌"; if currentPrice > average { label = "上涨" }
trendLabel(currentPrice, average) ==
    IF FGt(currentPrice, average) THEN LabelUp ELSE LabelDown

CalculateTrendAnalysis(list, t) ==
    IF Len(list) = 0 \/ t = Nil THEN Nil
    ELSE LET currentPrice == At(extractCloses(list), Len(list) - 1)
             shortTerm == trendLabel(currentPrice, t.SMA20)
             mediumTerm == trendLabel(currentPrice, t.SMA50)
             macdTrend == IF FGt(t.MACD, t.MACDSignal) THEN "bullish" ELSE "bearish"
             overall == IF shortTerm = LabelUp /\ mediumTerm = LabelUp
                        THEN LabelStrongUp
                        ELSE IF shortTerm = LabelDown /\ mediumTerm = LabelDown
                        THEN LabelStrongDown
                        ELSE LabelRanging
         IN  IF currentPrice = OutOfRange THEN Panic
             ELSE [ShortTerm |-> shortTerm, MediumTerm |-> mediumTerm,
                   MACD |-> macdTrend, Overall |-> overall, RSILevel |-> t.RSI]

\* fault injection: the support distance is computed whatever the support
MutPriceVsSupportUnguarded(currentPrice, staticSupport) ==
    FMul(FDiv(FSub(currentPrice, staticSupport), staticSupport), F(100))

\* if currentPrice > 0 { priceVsResistance = ... }, 0.0 otherwise
priceVsResistance(staticResistance, currentPrice) ==
    IF FGt(currentPrice, F(0))
    THEN FMul(FDiv(FSub(staticResistance, currentPrice), currentPrice), F(100))
    ELSE F(0)

\* if staticSupport > 0 { priceVsSupport = ... }, 0.0 otherwise
priceVsSupport(currentPrice, staticSupport) ==
    IF FGt(staticSupport, F(0))
    THEN FMul(FDiv(FSub(currentPrice, staticSupport), staticSupport), F(100))
    ELSE F(0)

CalculateLevelsAnalysis(c, list, t) ==
    IF Len(list) = 0 \/ t = Nil THEN Nil
    ELSE LET currentPrice == At(extractCloses(list), Len(list) - 1)
             lookback == lookbackPeriod(c, Len(list))
         IN  IF currentPrice = OutOfRange THEN Panic
             ELSE IF lookback = 0
             THEN [StaticResistance |-> currentPrice, StaticSupport |-> currentPrice,
                   DynamicResistance |-> t.BBUpper, DynamicSupport |-> t.BBLower,
                   PriceVsResistance |-> F(0), PriceVsSupport |-> F(0)]
             ELSE LET startIdx == Len(list) - lookback
                      staticResistance == max(Slice(extractHighs(list), startIdx, Len(list)))
                      staticSupport == min(Slice(extractLows(list), startIdx, Len(list)))
                  IN  [StaticResistance |-> staticResistance,
                       StaticSupport |-> staticSupport,
                       DynamicResistance |-> t.BBUpper,
                       DynamicSupport |-> t.BBLower,
                       PriceVsResistance |->
                           priceVsResistance(staticResistance, currentPrice),
                       PriceVsSupport |->
                           priceVsSupport(currentPrice, staticSupport)]

(***************************************************************************)
(* Inputs                                                                  *)
(***************************************************************************)
\* a Parameter Set a caller builds for NewCalculatorWithConfig: short periods,
\* a one-sigma band and a wider minimum band width
CompactConfig ==
    [SMA5Period |-> 1, SMA20Period |-> 2, SMA50Period |-> 3,
     EMA12Period |-> 2, EMA26Period |-> 3,
     MACDFastPeriod |-> 2, MACDSlowPeriod |-> 3, MACDSignalPeriod |-> 2,
     RSIPeriod |-> 2, RSINeutralValue |-> F(50), RSIMaxValue |-> F(100),
     BBPeriod |-> 3, BBStdDev |-> F(1), BBMinThreshold |-> Frac(1, 100),
     BBDefaultPos |-> Frac(1, 2), BBUpperAdjust |-> Frac(1001, 1000),
     BBLowerAdjust |-> Frac(999, 1000),
     VolumeMAPeriod |-> 2, DefaultVolumeRatio |-> F(1),
     SupportResistanceLookback |-> 2]

\* a Parameter Set whose top-level EMA periods differ from its MACD periods
SplitConfig == [CompactConfig EXCEPT !.EMA12Period = 1, !.EMA26Period = 2]

Configs == Presets \cup {CompactConfig, SplitConfig}

\* the values a float input is drawn from
FloatVals == {-1, 0, 1, 2}

ToFloats(s) == [i \in 1..Len(s) |-> F(s[i])]

\* every sequence of at most MaxLen values
FreeSeqs == UNION {[1..n -> FloatVals] : n \in 0..MaxLen}

\* n-1 times b, then c
PlateauSeqs ==
    {[i \in 1..n |-> IF i < n THEN b ELSE c] : b \in FloatVals, c \in FloatVals, n \in 1..MaxLong}

\* a, a+s, a+2s, ...
RampSeqs == {[i \in 1..n |-> a + s * (i - 1)] : a \in {0, 1}, s \in {-1, 1}, n \in 2..MaxLong}

\* Scenario A of the specification
ScenarioSeqs == {<<10, 20, 30>>}

ValueSeqs == {ToFloats(s) : s \in FreeSeqs \cup PlateauSeqs \cup RampSeqs \cup ScenarioSeqs}

Periods ==
    (0..MaxPeriod) \cup {c.RSIPeriod : c \in Presets} \cup {DefaultConfig.SMA5Period}

\* the bars a list is made of: no trade at all, two ordinary bars, and a bar
\* no exchange should send (High below Low, negative Close) but that nothing
\* in the pipeline rejects
Bar(h, l, c, v) == [High |-> F(h), Low |-> F(l), Close |-> F(c), Volume |-> F(v)]

BarSet == {Bar(0, 0, 0, 0), Bar(2, 1, 1, 1), Bar(3, 1, 2, 2), Bar(3, 2, 3, 0), Bar(1, 2, -1, 1)}

FreeLists == UNION {[1..n -> BarSet] : n \in 0..MaxLen}

PlateauLists ==
    {[i \in 1..n |-> IF i < n THEN b ELSE c] : b \in BarSet, c \in BarSet, n \in 1..MaxBars}

BarLists == FreeLists \cup PlateauLists

\* the lists handed to a calculator with short periods: MaxLong bars are
\* several times its longest period
ShortBarLists == FreeLists \cup {l \in PlateauLists : Len(l) <= MaxLong}

(***************************************************************************)
(* The other components at rest (they take no step while the calculator    *)
(* is exercised, and the calculator takes none while they are)             *)
(***************************************************************************)
RiskIdle ==
    /\ rmConfig = Nil
    /\ running = FALSE
    /\ heap = <<>>
    /\ currentPosition = 0
    /\ checker = Nil
    /\ ticks = 0
    /\ exchPosition = Nil
    /\ orders = <<>>

BotIdle ==
    /\ botConfig = Nil
    /\ fetched = Nil
    /\ botPosition = "none"
    /\ botPc = "idle"
    /\ marketData = Nil
    /\ signal = Nil
    /\ placed = <<>>

SessionIdle ==
    /\ sessions = Nil
    /\ recorded = Nil

AlignIdle ==
    /\ intervalMinutes = 0
    /\ minute = 0
    /\ points = <<>>
    /\ alignPc = "idle"

SchedIdle ==
    /\ schedConfig = Nil
    /\ sRunning = FALSE
    /\ cancelled = FALSE
    /\ loops = <<>>
    /\ clientPc = "idle"
    /\ lastCall = ""
    /\ executions = <<>>

CoreIdle == RiskIdle /\ BotIdle /\ SessionIdle
RestIdle == AlignIdle /\ SchedIdle
SysIdle == CoreIdle /\ RestIdle

IndIdle ==
    /\ config = AggressiveConfig
    /\ values = <<>>
    /\ period = 0
    /\ fastPeriod = 0
    /\ fn = ""
    /\ ret = Nil
    /\ ohlcvList = <<>>
    /\ calls = <<>>
    /\ tech = Nil
    /\ trend = Nil
    /\ levels = Nil

(***************************************************************************)
(* SpecFn: one indicator function applied to one input                     *)
(***************************************************************************)
fnVars == <<values, period, fastPeriod, fn, ret>>
apiVars == <<ohlcvList, calls, tech, trend, levels>>

InitFn ==
    /\ config \in Configs
    /\ values \in ValueSeqs
    /\ period \in Periods
    /\ fastPeriod = 0
    /\ fn = ""
    /\ ret = Nil
    /\ ohlcvList = <<>>
    /\ calls = <<>>
    /\ tech = Nil
    /\ trend = Nil
    /\ levels = Nil
    /\ SysIdle

Apply(name, result) ==
    /\ fn = ""
    /\ fn' = name
    /\ ret' = result
    /\ UNCHANGED <<config, values, period, fastPeriod, apiVars, sysVars>>

CallSMA == Apply("calculateSMA", calculateSMA(values, period))

CallEMA == Apply("calculateEMA", calculateEMA(values, period))

CallRSI == Apply("calculateRSI", calculateRSI(config, values, period))

CallBollingerBands ==
    Apply("calculateBollingerBands",
          calculateBollingerBands(config, values, period, config.BBStdDev))

\* calculateMACDValues(values, f, period) for a fast period f <= slow period
CallMACDValues ==
    \E f \in 0..MaxPeriod :
        /\ fn = ""
        /\ period <= MaxPeriod
        /\ f <= period
        /\ fn' = "calculateMACDValues"
        /\ fastPeriod' = f
        /\ ret' = calculateMACDValues(values, f, period)
        /\ UNCHANGED <<config, values, period, apiVars, sysVars>>

NextFn == CallSMA \/ CallEMA \/ CallRSI \/ CallBollingerBands \/ CallMACDValues

SpecFn == InitFn /\ [][NextFn]_vars

(***************************************************************************)
(* Spec: the public methods called on one bar list                         *)
(***************************************************************************)
Init ==
    /\ config \in Configs
    /\ ohlcvList \in (IF config \in Presets THEN BarLists ELSE ShortBarLists)
    /\ calls = <<>>
    /\ tech = Nil
    /\ trend = Nil
    /\ levels = Nil
    /\ values = <<>>
    /\ period = 0
    /\ fastPeriod = 0
    /\ fn = ""
    /\ ret = Nil
    /\ SysIdle

Called(name) == \E i \in 1..Len(calls) : calls[i] = name

\* techData := calculator.Calculate(ohlcvList)
DoCalculate ==
    /\ calls = <<>>
    /\ tech' = Calculate(config, ohlcvList)
    /\ calls' = Append(calls, "Calculate")
    /\ UNCHANGED <<config, ohlcvList, trend, levels, fnVars, sysVars>>

\* trendAnalysis := calculator.CalculateTrendAnalysis(ohlcvList, techData);
\* a caller that has not called Calculate hands a nil techData
DoTrendAnalysis ==
    /\ ~Called("CalculateTrendAnalysis")
    /\ tech # Panic
    /\ trend' = CalculateTrendAnalysis(ohlcvList, tech)
    /\ calls' = Append(calls, "CalculateTrendAnalysis")
    /\ UNCHANGED <<config, ohlcvList, tech, levels, fnVars, sysVars>>

\* levelsAnalysis := calculator.CalculateLevelsAnalysis(ohlcvList, techData)
DoLevelsAnalysis ==
    /\ Called("CalculateTrendAnalysis")
    /\ ~Called("CalculateLevelsAnalysis")
    /\ levels' = CalculateLevelsAnalysis(config, ohlcvList, tech)
    /\ calls' = Append(calls, "CalculateLevelsAnalysis")
    /\ UNCHANGED <<config, ohlcvList, tech, trend, fnVars, sysVars>>

Next == DoCalculate \/ DoTrendAnalysis \/ DoLevelsAnalysis

Spec == Init /\ [][Next]_vars

(***************************************************************************)
(* SpecRisk: the risk manager's goroutines, the trading cycle's            *)
(* UpdatePosition calls and the exchange                                   *)
(***************************************************************************)
\* Position objects allocated in one behaviour
MaxObjects == 3
\* ticker events of the monitor loop in one behaviour
MaxTicks == 2
\* positions opened on the exchange in one behaviour
MaxOpens == 2

\* NewTradingBot creates a risk manager only when stop-loss or take-profit
\* is enabled
RiskConfigs ==
    {[EnableStopLoss |-> sl, EnableTakeProfit |-> tp, EnableTrailingStop |-> ts,
      StopLossPercent |-> F(50), TakeProfitPercent |-> F(50),
      TrailingStopDistance |-> F(50)] :
        sl \in BOOLEAN, tp \in BOOLEAN, ts \in BOOLEAN} \ 
    {c \in [EnableStopLoss : {FALSE}, EnableTakeProfit : {FALSE},
            EnableTrailingStop : BOOLEAN, StopLossPercent : {F(50)},
            TakeProfitPercent : {F(50)}, TrailingStopDistance : {F(50)}] : TRUE}

Sides == {"long", "short"}
EntryPrices == {F(2)}
TickerPrices == {F(1), F(2), F(4)}

\* the goroutines that run checkPosition: the one Start spawns for the
\* startup check and monitorLoop
Checkers == {"startup", "monitor"}

\* what OKXClient.FetchPosition builds for an open position: the risk fields
\* keep their zero values
fetchedPosition(side, entryPrice) ==
    [Side |-> side, EntryPrice |-> entryPrice, StopLoss |-> F(0), TakeProfit |-> F(0),
     TrailingStop |-> F(0), HighestPrice |-> F(0), LowestPrice |-> F(0)]

Percent(x) == FDiv(x, F(100))

calculateStopLossTakeProfit(cfg, pos) ==
    LET below(pct) == FMul(pos.EntryPrice, FSub(F(1), Percent(pct)))
        above(pct) == FMul(pos.EntryPrice, FAdd(F(1), Percent(pct)))
        fixed ==
            IF pos.Side = "long"
            THEN [pos EXCEPT
                    !.StopLoss = IF cfg.EnableStopLoss THEN below(cfg.StopLossPercent) ELSE @,
                    !.TakeProfit = IF cfg.EnableTakeProfit THEN above(cfg.TakeProfitPercent) ELSE @,
                    !.HighestPrice = pos.EntryPrice,
                    !.LowestPrice = pos.EntryPrice]
            ELSE IF pos.Side = "short"
            THEN [pos EXCEPT
                    !.StopLoss = IF cfg.EnableStopLoss THEN above(cfg.StopLossPercent) ELSE @,
                    !.TakeProfit = IF cfg.EnableTakeProfit THEN below(cfg.TakeProfitPercent) ELSE @,
                    !.HighestPrice = pos.EntryPrice,
                    !.LowestPrice = pos.EntryPrice]
            ELSE pos
    IN  IF ~cfg.EnableTrailingStop THEN fixed
        ELSE IF ~cfg.EnableStopLoss \/ fixed.StopLoss = F(0)
        THEN IF pos.Side = "long"
             THEN [fixed EXCEPT !.TrailingStop = below(cfg.TrailingStopDistance)]
             ELSE IF pos.Side = "short"
             THEN [fixed EXCEPT !.TrailingStop = above(cfg.TrailingStopDistance)]
             ELSE fixed
        ELSE [fixed EXCEPT !.TrailingStop = fixed.StopLoss]

\* the two "if" statements that track the highest and the lowest price seen
trackExtremes(pos, currentPrice) ==
    [pos EXCEPT
        !.HighestPrice = IF FGt(currentPrice, @) THEN currentPrice ELSE @,
        !.LowestPrice = IF FLt(currentPrice, @) THEN currentPrice ELSE @]

updateTrailingStop(cfg, pos) ==
    LET trailingDistance == Percent(cfg.TrailingStopDistance)
    IN  IF pos.Side = "long"
        THEN LET newTrailingStop == FMul(pos.HighestPrice, FSub(F(1), trailingDistance))
             IN  IF FGt(newTrailingStop, pos.TrailingStop)
                 THEN [pos EXCEPT !.TrailingStop = newTrailingStop] ELSE pos
        ELSE IF pos.Side = "short"
        THEN LET newTrailingStop == FMul(pos.LowestPrice, FAdd(F(1), trailingDistance))
             IN  IF FLt(newTrailingStop, pos.TrailingStop)
                 THEN [pos EXCEPT !.TrailingStop = newTrailingStop] ELSE pos
        ELSE pos

shouldClosePosition(cfg, pos, currentPrice) ==
    IF pos.Side = "long"
    THEN \/ /\ cfg.EnableStopLoss
            /\ \/ /\ cfg.EnableTrailingStop
                  /\ FGt(pos.TrailingStop, F(0))
                  /\ FLe(currentPrice, pos.TrailingStop)
               \/ FGt(pos.StopLoss, F(0)) /\ FLe(currentPrice, pos.StopLoss)
         \/ /\ cfg.EnableTakeProfit
            /\ FGt(pos.TakeProfit, F(0))
            /\ FGe(currentPrice, pos.TakeProfit)
    ELSE IF pos.Side = "short"
    THEN \/ /\ cfg.EnableStopLoss
            /\ \/ /\ cfg.EnableTrailingStop
                  /\ FGt(pos.TrailingStop, F(0))
                  /\ FGe(currentPrice, pos.TrailingStop)
               \/ FGt(pos.StopLoss, F(0)) /\ FGe(currentPrice, pos.StopLoss)
         \/ /\ cfg.EnableTakeProfit
            /\ FGt(pos.TakeProfit, F(0))
            /\ FLe(currentPrice, pos.TakeProfit)
    ELSE FALSE

NoExchPosition == [open |-> FALSE, Side |-> "", EntryPrice |-> F(0), gen |-> 0]

InitRisk ==
    /\ rmConfig \in RiskConfigs
    /\ running = FALSE
    /\ heap = <<>>
    /\ currentPosition = 0
    /\ checker = [t \in Checkers |-> [pc |-> "none", pos |-> 0, currentPrice |-> F(0)]]
    /\ ticks = 0
    /\ exchPosition = NoExchPosition
    /\ orders = <<>>
    /\ IndIdle
    /\ BotIdle
    /\ SessionIdle
    /\ RestIdle

\* Start: sets running and spawns the startup check and the monitor loop
\* (on a running manager it returns an error and changes nothing)
Start ==
    /\ ~running
    /\ running' = TRUE
    /\ checker' = [checker EXCEPT !["startup"].pc = "check", !["monitor"].pc = "select"]
    /\ UNCHANGED <<rmConfig, heap, currentPosition, ticks, exchPosition, orders, indVars, botVars, sessVars, restVars>>

\* UpdatePosition(pos) under rm.mu; pos is Nil or a freshly allocated object
UpdatePosition(pos) ==
    IF pos = Nil
    THEN /\ currentPosition' = 0
         /\ UNCHANGED heap
    ELSE LET isNew ==
                 \/ currentPosition = 0
                 \/ heap[currentPosition].EntryPrice # pos.EntryPrice
                 \/ heap[currentPosition].Side # pos.Side
             obj == IF isNew THEN calculateStopLossTakeProfit(rmConfig, pos) ELSE pos
         IN  /\ heap' = Append(heap, obj)
             /\ currentPosition' = Len(heap) + 1

\* step 2 of TradingBot.Run: FetchPosition, then UpdatePosition with the
\* fetched object (nil when the exchange holds no position)
RunSyncPosition ==
    /\ exchPosition.open => Len(heap) < MaxObjects
    /\ currentPosition # 0 \/ exchPosition.open
    /\ UpdatePosition(IF exchPosition.open
                      THEN fetchedPosition(exchPosition.Side, exchPosition.EntryPrice)
                      ELSE Nil)
    /\ UNCHANGED <<rmConfig, running, checker, ticks, exchPosition, orders, indVars, botVars, sessVars, restVars>>

\* executeBuy / executeSell with no position held: the opening order is
\* filled, the position is fetched and handed to UpdatePosition
OpenPosition ==
    \E side \in Sides, entryPrice \in EntryPrices :
        /\ ~exchPosition.open
        /\ exchPosition.gen < MaxOpens
        /\ Len(heap) < MaxObjects
        /\ exchPosition' = [open |-> TRUE, Side |-> side, EntryPrice |-> entryPrice,
                            gen |-> exchPosition.gen + 1]
        /\ UpdatePosition(fetchedPosition(side, entryPrice))
        /\ UNCHANGED <<rmConfig, running, checker, ticks, orders, indVars, botVars, sessVars, restVars>>

\* monitorLoop: case <-ticker.C
Tick ==
    /\ checker["monitor"].pc = "select"
    /\ ticks < MaxTicks
    /\ ticks' = ticks + 1
    /\ checker' = [checker EXCEPT !["monitor"].pc = "check"]
    /\ UNCHANGED <<rmConfig, running, heap, currentPosition, exchPosition, orders, indVars, botVars, sessVars, restVars>>

\* where checkPosition returns to: the startup goroutine ends, the monitor
\* loop goes back to its select
Return(t) == IF t = "monitor" THEN "select" ELSE "done"

\* checkPosition: pos := rm.currentPosition under the lock; nil returns
CheckRead(t) ==
    /\ checker[t].pc = "check"
    /\ checker' = [checker EXCEPT
                     ![t].pos = currentPosition,
                     ![t].pc = IF currentPosition = 0 THEN Return(t) ELSE "ticker"]
    /\ UNCHANGED <<rmConfig, running, heap, currentPosition, ticks, exchPosition, orders, indVars, botVars, sessVars, restVars>>

\* checkPosition: FetchTicker; an error returns
CheckTicker(t) ==
    /\ checker[t].pc = "ticker"
    /\ \/ \E price \in TickerPrices :
              checker' = [checker EXCEPT ![t].currentPrice = price, ![t].pc = "track"]
       \/ checker' = [checker EXCEPT ![t].pc = Return(t)]
    /\ UNCHANGED <<rmConfig, running, heap, currentPosition, ticks, exchPosition, orders, indVars, botVars, sessVars, restVars>>

\* checkPosition: the highest and lowest price are updated under the lock
CheckTrack(t) ==
    /\ checker[t].pc = "track"
    /\ heap' = [heap EXCEPT ![checker[t].pos] = trackExtremes(@, checker[t].currentPrice)]
    /\ checker' = [checker EXCEPT
                     ![t].pc = IF rmConfig.EnableTrailingStop THEN "trail" ELSE "decide"]
    /\ UNCHANGED <<rmConfig, running, currentPosition, ticks, exchPosition, orders, indVars, botVars, sessVars, restVars>>

\* checkPosition: updateTrailingStop under the lock
CheckTrail(t) ==
    /\ checker[t].pc = "trail"
    /\ heap' = [heap EXCEPT ![checker[t].pos] = updateTrailingStop(rmConfig, @)]
    /\ checker' = [checker EXCEPT ![t].pc = "decide"]
    /\ UNCHANGED <<rmConfig, running, currentPosition, ticks, exchPosition, orders, indVars, botVars, sessVars, restVars>>

\* checkPosition: shouldClosePosition decides between closePosition and return
CheckDecide(t) ==
    /\ checker[t].pc = "decide"
    /\ checker' = [checker EXCEPT
                     ![t].pc = IF shouldClosePosition(rmConfig, heap[checker[t].pos],
                                                      checker[t].currentPrice)
                               THEN "close" ELSE Return(t)]
    /\ UNCHANGED <<rmConfig, running, heap, currentPosition, ticks, exchPosition, orders, indVars, botVars, sessVars, restVars>>

\* closePosition: PlaceOrder with reduceOnly for pos.Side; the exchange
\* fills it only against an open position of that side, and any call may
\* fail; a failure returns
ClosePlaceOrder(t) ==
    /\ checker[t].pc = "close"
    /\ \E ok \in BOOLEAN :
        /\ ok => (exchPosition.open /\ exchPosition.Side = heap[checker[t].pos].Side)
        /\ orders' = Append(orders, [pos |-> checker[t].pos, by |-> t, ok |-> ok])
        /\ exchPosition' = IF ok THEN [exchPosition EXCEPT !.open = FALSE] ELSE exchPosition
        /\ checker' = [checker EXCEPT ![t].pc = IF ok THEN "clear" ELSE Return(t)]
    /\ UNCHANGED <<rmConfig, running, heap, currentPosition, ticks, indVars, botVars, sessVars, restVars>>

\* closePosition: after the sleep and FetchBalance, rm.currentPosition = nil
\* under the lock
CloseClear(t) ==
    /\ checker[t].pc = "clear"
    /\ currentPosition' = 0
    /\ checker' = [checker EXCEPT ![t].pc = Return(t)]
    /\ UNCHANGED <<rmConfig, running, heap, ticks, exchPosition, orders, indVars, botVars, sessVars, restVars>>

checkPosition(t) ==
    \/ CheckRead(t)
    \/ CheckTicker(t)
    \/ CheckTrack(t)
    \/ CheckTrail(t)
    \/ CheckDecide(t)
    \/ ClosePlaceOrder(t)
    \/ CloseClear(t)

NextRisk ==
    \/ Start
    \/ RunSyncPosition
    \/ OpenPosition
    \/ Tick
    \/ \E t \in Checkers : checkPosition(t)

SpecRisk == InitRisk /\ [][NextRisk]_vars

(***************************************************************************)
(* SpecBot: one trading cycle (TradingBot.Run): market data, signal, trade *)
(***************************************************************************)
\* the error fetchMarketData passes on when FetchOHLCV fails
FetchError == [err |-> "FetchOHLCV"]

\* longest bar list FetchOHLCV returns in a trading cycle
MaxFetched == 2

\* what FetchOHLCV returns to fetchMarketData: (nil, err) or (list, nil)
FetchResults ==
    {[list |-> <<>>, err |-> TRUE]} \cup
    {[list |-> l, err |-> FALSE] : l \in UNION {[1..n -> BarSet] : n \in 0..MaxFetched}}

\* config.Trading.TestMode and the trading mode
BotConfigs == [TestMode : BOOLEAN, Mode : {"spot", "futures"}]

\* bot.currentPosition after step 2 of Run: nil, or a position of one side
BotPositions == {"none", "long", "short"}

\* the signals AnalyzeMarket returns: parseSignal accepts every non-empty
\* Signal and any Confidence ("WAIT" stands for a string that is none of
\* BUY, SELL, HOLD; "" for a missing confidence)
ParsedSignals ==
    [Signal : {"BUY", "SELL", "HOLD", "WAIT"}, Confidence : {"HIGH", "MEDIUM", "LOW", ""},
     IsFallback : {FALSE}]

createFallbackSignal == [Signal |-> "HOLD", Confidence |-> "LOW", IsFallback |-> TRUE]

Signals == ParsedSignals \cup {createFallbackSignal}

\* what the exchange answers during executeTrade: the balance FetchBalance
\* reports relative to the amount of the trade, and whether the first
\* PlaceOrder call succeeds
TradeEnvs == [balance : {"err", "zero", "partial", "enough"}, ok : BOOLEAN]

Order(side, reduceOnly) == [side |-> side, reduceOnly |-> reduceOnly]

fetchMarketData(c, result) ==
    IF result.err THEN FetchError
    ELSE IF Len(result.list) = 0 THEN [err |-> "no data"]
    ELSE LET list == result.list
             techData == Calculate(c, list)
             trendAnalysis == CalculateTrendAnalysis(list, techData)
             levelsAnalysis == CalculateLevelsAnalysis(c, list, techData)
         IN  IF Len(list) - 2 < 0 THEN Panic
             ELSE LET current == list[Len(list)]
                      previous == list[Len(list) - 1]
                  IN  [Price |-> current.Close,
                       High |-> current.High,
                       Low |-> current.Low,
                       Volume |-> current.Volume,
                       PriceChange |->
                           FMul(FDiv(FSub(current.Close, previous.Close), previous.Close),
                                F(100)),
                       TechnicalData |-> techData,
                       TrendAnalysis |-> trendAnalysis,
                       LevelsAnalysis |-> levelsAnalysis]

\* the PlaceOrder calls of executeSpotTrade
executeSpotTrade(sig, env) ==
    IF sig.Signal = "BUY"
    THEN IF env.balance \in {"zero", "partial"} THEN <<>> ELSE <<Order("buy", FALSE)>>
    ELSE IF sig.Signal = "SELL"
    THEN IF env.balance \in {"err", "zero"} THEN <<>> ELSE <<Order("sell", FALSE)>>
    ELSE <<>>

\* the PlaceOrder calls of executeBuy
executeBuy(position, env) ==
    IF position = "short"
    THEN <<Order("buy", TRUE)>> \o (IF env.ok THEN <<Order("buy", FALSE)>> ELSE <<>>)
    ELSE IF position = "long" THEN <<>>
    ELSE <<Order("buy", FALSE)>>

\* the PlaceOrder calls of executeSell
executeSell(position, env) ==
    IF position = "long"
    THEN <<Order("sell", TRUE)>> \o (IF env.ok THEN <<Order("sell", FALSE)>> ELSE <<>>)
    ELSE IF position = "short" THEN <<>>
    ELSE <<Order("sell", FALSE)>>

executeFuturesTrade(sig, position, env) ==
    IF sig.Signal = "BUY" THEN executeBuy(position, env)
    ELSE IF sig.Signal = "SELL" THEN executeSell(position, env)
    ELSE <<>>

placeOrder(cfg, sig, position, env) ==
    IF cfg.Mode = "spot" THEN executeSpotTrade(sig, env)
    ELSE executeFuturesTrade(sig, position, env)

\* a first guard that lets LOW confidence signals through
MutSkipsLowConfidenceNever(cfg, sig) == FALSE

\* the first guard of executeTrade: a LOW confidence signal outside test mode
skipsLowConfidence(cfg, sig) == sig.Confidence = "LOW" /\ ~cfg.TestMode

\* the PlaceOrder calls of executeTrade
executeTrade(cfg, sig, position, env) ==
    IF skipsLowConfidence(cfg, sig) THEN <<>>
    ELSE IF cfg.TestMode THEN <<>>
    ELSE IF sig.Signal = "HOLD" THEN <<>>
    ELSE placeOrder(cfg, sig, position, env)

InitBot ==
    /\ botConfig \in BotConfigs
    /\ fetched \in FetchResults
    /\ botPosition \in BotPositions
    /\ botPc = "start"
    /\ marketData = Nil
    /\ signal = Nil
    /\ placed = <<>>
    /\ RiskIdle
    /\ IndIdle
    /\ SessionIdle
    /\ RestIdle

\* step 1 of Run: fetchMarketData; an error ends the cycle, a fault leaves it
DoFetchMarketData ==
    /\ botPc = "start"
    /\ marketData' = fetchMarketData(config, fetched)
    /\ botPc' = IF marketData' = Panic THEN "panicked"
                ELSE IF "err" \in DOMAIN marketData' THEN "failed"
                ELSE "fetched"
    /\ UNCHANGED <<botConfig, fetched, botPosition, signal, placed, riskVars, indVars, sessVars, restVars>>

\* step 4 of Run: AnalyzeMarket returns a parsed signal, the fallback signal,
\* or an error that ends the cycle
DoAnalyzeMarket ==
    /\ botPc = "fetched"
    /\ \/ \E sig \in Signals : signal' = sig /\ botPc' = "analyzed"
       \/ signal' = Nil /\ botPc' = "failed"
    /\ UNCHANGED <<botConfig, fetched, botPosition, marketData, placed, riskVars, indVars, sessVars, restVars>>

\* step 5 of Run: executeTrade
DoExecuteTrade ==
    /\ botPc = "analyzed"
    /\ \E env \in TradeEnvs : placed' = executeTrade(botConfig, signal, botPosition, env)
    /\ botPc' = "done"
    /\ UNCHANGED <<botConfig, fetched, botPosition, marketData, signal, riskVars, indVars, sessVars, restVars>>

NextBot == DoFetchMarketData \/ DoAnalyzeMarket \/ DoExecuteTrade

SpecBot == InitBot /\ [][NextBot]_vars

(***************************************************************************)
(* SpecSession: the AI client's per-pair session contexts                  *)
(***************************************************************************)
\* the number of signals a session keeps
HistoryLimit == 30
\* AnalyzeMarket calls that record a signal, per trading pair
MaxUpdates == 32

TradingPairs == {"BTC-USDT", "ETH-USDT"}

SignalKinds == <<"BUY", "HOLD", "SELL", "WAIT", "HOLD">>

\* the signal parsed in the k-th recording call for a pair; pair and
\* timestamp make it distinguishable from every other recorded signal
SignalAt(tradingPair, k) ==
    [Signal |-> SignalKinds[(k % Len(SignalKinds)) + 1], Timestamp |-> k,
     TradingPair |-> tradingPair]

ZeroStats == [BuyCount |-> 0, SellCount |-> 0, HoldCount |-> 0, Total |-> 0]

\* the session getOrCreateSession creates
NewSession == [SignalHistory |-> <<>>, LastUpdate |-> 0, Stats |-> ZeroStats]

\* a limit step that drops the newest signal
MutTrimNewest(history) ==
    IF Len(history) > HistoryLimit THEN SubSeq(history, 1, Len(history) - 1) ELSE history

\* the limit step of updateSession: SignalHistory[1:] beyond 30 entries
trimHistory(history) ==
    IF Len(history) > HistoryLimit THEN Tail(history) ELSE history

countSignal(stats, sig) ==
    [stats EXCEPT
        !.Total = @ + 1,
        !.BuyCount = IF sig.Signal = "BUY" THEN @ + 1 ELSE @,
        !.SellCount = IF sig.Signal = "SELL" THEN @ + 1 ELSE @,
        !.HoldCount = IF sig.Signal = "HOLD" THEN @ + 1 ELSE @]

\* c.sessions after getOrCreateSession(tradingPair)
getOrCreateSession(ss, tradingPair) ==
    IF ss[tradingPair] # Nil THEN ss ELSE [ss EXCEPT ![tradingPair] = NewSession]

\* c.sessions after updateSession(tradingPair, sig)
updateSession(ss, tradingPair, sig) ==
    [ss EXCEPT ![tradingPair] =
        [SignalHistory |-> trimHistory(Append(@.SignalHistory, sig)),
         Stats |-> countSignal(@.Stats, sig),
         LastUpdate |-> sig.Timestamp]]

InitSession ==
    /\ sessions = [p \in TradingPairs |-> Nil]
    /\ recorded = [p \in TradingPairs |-> <<>>]
    /\ RiskIdle
    /\ BotIdle
    /\ IndIdle
    /\ RestIdle

\* AnalyzeMarket(tradingPair, ...) whose reply parses: the session is
\* created if missing and updated with the signal
AnalyzeMarketRecords(tradingPair) ==
    /\ Len(recorded[tradingPair]) < MaxUpdates
    /\ LET sig == SignalAt(tradingPair, Len(recorded[tradingPair]) + 1)
       IN  /\ sessions' = updateSession(getOrCreateSession(sessions, tradingPair),
                                        tradingPair, sig)
           /\ recorded' = [recorded EXCEPT ![tradingPair] = Append(@, sig)]
    /\ UNCHANGED <<riskVars, botVars, indVars, restVars>>

\* AnalyzeMarket(tradingPair, ...) that returns an error or the fallback
\* signal: the session is created if missing and nothing is recorded
AnalyzeMarketFails(tradingPair) ==
    /\ sessions[tradingPair] = Nil
    /\ sessions' = getOrCreateSession(sessions, tradingPair)
    /\ UNCHANGED <<recorded, riskVars, botVars, indVars, restVars>>

NextSession ==
    \E p \in TradingPairs : AnalyzeMarketRecords(p) \/ AnalyzeMarketFails(p)

SpecSession == InitSession /\ [][NextSession]_vars

(***************************************************************************)
(* SpecAlign: main's calculateAlignPoints loop, one iteration per step     *)
(***************************************************************************)
\* minutes of an hour: the loops run while minute < 60
MinutesPerHour == 60
\* iterations of the display loop that are followed
MaxPoints == 61

\* config.Trading.ScheduleIntervalMinutes: Validate does not look at it
IntervalMinutes == -2..62

\* calculateAlignMinutes for an interval of m whole minutes: m is clamped to
\* 1..60 and the loop appends 0, m, 2m, ... while below 60
calculateAlignMinutes(m) ==
    LET clamped == IF m < 1 THEN 1 ELSE IF m > 60 THEN 60 ELSE m
    IN  [k \in 1..(((MinutesPerHour - 1) \div clamped) + 1) |-> (k - 1) * clamped]

InitAlign ==
    /\ intervalMinutes \in IntervalMinutes
    /\ minute = 0
    /\ points = <<>>
    /\ alignPc = "loop"
    /\ SchedIdle
    /\ CoreIdle
    /\ IndIdle

\* one iteration of calculateAlignPoints: append minute, add the interval
AlignPointsStep ==
    /\ alignPc = "loop"
    /\ minute < MinutesPerHour
    /\ Len(points) < MaxPoints
    /\ points' = Append(points, minute)
    /\ minute' = minute + intervalMinutes
    /\ UNCHANGED <<intervalMinutes, alignPc, schedVars, coreVars, indVars>>

\* the loop condition fails: calculateAlignPoints returns points
AlignPointsReturn ==
    /\ alignPc = "loop"
    /\ ~(minute < MinutesPerHour)
    /\ alignPc' = "returned"
    /\ UNCHANGED <<intervalMinutes, minute, points, schedVars, coreVars, indVars>>

NextAlign == AlignPointsStep \/ AlignPointsReturn

SpecAlign == InitAlign /\ [][NextAlign]_vars

(***************************************************************************)
(* SpecSched: a Scheduler, the client that starts and stops it, and its    *)
(* run goroutines                                                          *)
(***************************************************************************)
\* successful Start calls in one behaviour
MaxStarts == 3
\* task executions in one behaviour
MaxExecutions == 3

\* the options a Scheduler is built with: WithRunImmediately,
\* WithErrorHandler, WithCompleteHandler (a handler that is not given stays
\* nil); handlers return normally
SchedConfigs == [runImmediately : BOOLEAN, hasOnError : BOOLEAN, hasOnComplete : BOOLEAN]

\* how a call of s.task() ends
TaskOutcomes == {"nil", "error", "panic"}

\* handleError: onError if it is set
handleError(cfg) == IF cfg.hasOnError THEN <<"onError">> ELSE <<>>

\* an executeTask without the deferred recover: a panic reaches no handler
MutExecuteTaskNoRecover(cfg, outcome) ==
    IF outcome = "nil" THEN (IF cfg.hasOnComplete THEN <<"onComplete">> ELSE <<>>)
    ELSE IF outcome = "error" THEN handleError(cfg)
    ELSE <<>>

\* the callbacks executeTask triggers for a task that ended with outcome
executeTask(cfg, outcome) ==
    IF outcome = "nil" THEN (IF cfg.hasOnComplete THEN <<"onComplete">> ELSE <<>>)
    ELSE handleError(cfg)

InitSched ==
    /\ schedConfig \in SchedConfigs
    /\ sRunning = FALSE
    /\ cancelled = FALSE
    /\ loops = <<>>
    /\ clientPc = "idle"
    /\ lastCall = "NewScheduler"
    /\ executions = <<>>
    /\ AlignIdle
    /\ CoreIdle
    /\ IndIdle

\* Start on a scheduler that is not running: running is set and run() is
\* spawned
StartOk ==
    /\ clientPc = "idle"
    /\ ~sRunning
    /\ Len(loops) < MaxStarts
    /\ sRunning' = TRUE
    /\ loops' = Append(loops, "run")
    /\ lastCall' = "Start: nil"
    /\ UNCHANGED <<schedConfig, cancelled, clientPc, executions, alignVars, coreVars, indVars>>

\* Start on a running scheduler: an error, nothing else
StartRejected ==
    /\ clientPc = "idle"
    /\ sRunning
    /\ lastCall' = "Start: error"
    /\ UNCHANGED <<schedConfig, sRunning, cancelled, loops, clientPc, executions, alignVars,
                   coreVars, indVars>>

\* Stop on a scheduler that is not running returns at once
StopIdle ==
    /\ clientPc = "idle"
    /\ ~sRunning
    /\ lastCall' = "Stop"
    /\ UNCHANGED <<schedConfig, sRunning, cancelled, loops, clientPc, executions, alignVars,
                   coreVars, indVars>>

\* Stop on a running scheduler: cancel(), then wg.Wait()
StopCancel ==
    /\ clientPc = "idle"
    /\ sRunning
    /\ cancelled' = TRUE
    /\ clientPc' = "wg.Wait"
    /\ UNCHANGED <<schedConfig, sRunning, loops, lastCall, executions, alignVars, coreVars,
                   indVars>>

\* a run goroutine that has not returned
Live(i) == loops[i] # "returned"

\* Stop: wg.Wait() returns once every run goroutine has returned; running is
\* cleared and Stop returns
StopReturn ==
    /\ clientPc = "wg.Wait"
    /\ \A i \in 1..Len(loops) : ~Live(i)
    /\ sRunning' = FALSE
    /\ clientPc' = "idle"
    /\ lastCall' = "Stop"
    /\ UNCHANGED <<schedConfig, cancelled, loops, executions, alignVars, coreVars, indVars>>

\* executions begun so far
Begun == Len(executions) + Cardinality({i \in 1..Len(loops) : loops[i] = "task"})

\* run(): the immediate execution if runImmediately, else on to the mode's loop
RunEnter(i) ==
    /\ loops[i] = "run"
    /\ schedConfig.runImmediately => Begun < MaxExecutions
    /\ loops' = [loops EXCEPT ![i] = IF schedConfig.runImmediately THEN "task" ELSE "select"]
    /\ UNCHANGED <<schedConfig, sRunning, cancelled, clientPc, lastCall, executions, alignVars,
                   coreVars, indVars>>

\* runIntervalMode / runAlignedMode: the timer case of the select
SelectTimer(i) ==
    /\ loops[i] = "select"
    /\ Begun < MaxExecutions
    /\ loops' = [loops EXCEPT ![i] = "task"]
    /\ UNCHANGED <<schedConfig, sRunning, cancelled, clientPc, lastCall, executions, alignVars,
                   coreVars, indVars>>

\* runIntervalMode / runAlignedMode: the ctx.Done() case of the select
SelectDone(i) ==
    /\ loops[i] = "select"
    /\ cancelled
    /\ loops' = [loops EXCEPT ![i] = "returned"]
    /\ UNCHANGED <<schedConfig, sRunning, cancelled, clientPc, lastCall, executions, alignVars,
                   coreVars, indVars>>

\* executeTask: the task ends, the callbacks run, the loop goes to its select
TaskEnds(i) ==
    \E outcome \in TaskOutcomes :
        /\ loops[i] = "task"
        /\ executions' = Append(executions,
                                [loop |-> i, outcome |-> outcome,
                                 callbacks |-> executeTask(schedConfig, outcome)])
        /\ loops' = [loops EXCEPT ![i] = "select"]
        /\ UNCHANGED <<schedConfig, sRunning, cancelled, clientPc, lastCall, alignVars,
                       coreVars, indVars>>

run(i) == RunEnter(i) \/ SelectTimer(i) \/ SelectDone(i) \/ TaskEnds(i)

NextSched ==
    \/ StartOk
    \/ StartRejected
    \/ StopIdle
    \/ StopCancel
    \/ StopReturn
    \/ \E i \in 1..Len(loops) : run(i)

SpecSched == InitSched /\ [][NextSched]_vars

(***************************************************************************)
(* Properties of the single indicator functions (checked under SpecFn)     *)
(***************************************************************************)
\* s[lo] + ... + s[hi] (1-based), summed by halves
RECURSIVE RangeSum(_, _, _)
RangeSum(s, lo, hi) ==
    IF hi < lo THEN F(0)
    ELSE IF hi = lo THEN s[lo]
    ELSE LET mid == (lo + hi) \div 2
             left == RangeSum(s, lo, mid)
         IN  IF IsNum(left) THEN FAdd(left, RangeSum(s, mid + 1, hi)) ELSE left

SeqSum(s) == RangeSum(s, 1, Len(s))

\* the arithmetic mean of a non-empty sequence
Mean(s) == FDiv(SeqSum(s), F(Len(s)))

LastN(s, k) == SubSeq(s, Len(s) - k + 1, Len(s))

\* a^k by repeated squaring
RECURSIVE FPow(_, _)
FPow(a, k) ==
    IF k = 0 THEN F(1)
    ELSE LET h == FPow(a, k \div 2)
         IN  IF ~IsNum(h) THEN h
             ELSE IF k % 2 = 0 THEN FMul(h, h) ELSE FMul(FMul(h, h), a)

\* C3: calculateSMA(values, p) is the mean of the last p values when
\* 1 <= p <= len(values), the mean of all values when p > len(values), and 0
\* for empty values.
C3_SMAIsMeanOfLastP ==
    fn = "calculateSMA" =>
        /\ values = <<>> => ret = F(0)
        /\ (values # <<>> /\ 1 <= period /\ period <= Len(values)) =>
               ret = Mean(LastN(values, period))
        /\ (values # <<>> /\ period > Len(values)) => ret = Mean(values)

\* Scenario A: closes = [10, 20, 30], period = 5 gives 20
C3_Witness ==
    /\ fn = "calculateSMA"
    /\ values = ToFloats(<<10, 20, 30>>)
    /\ period = 5
    /\ ret = F(20)

\* sum over i = p+1 .. n of values[i] * m * (1-m)^(n-i)  (1-based i)
EmaTail(vs, m, i) ==
    LET weighted == [j \in 1..Len(vs) |->
                        FMul(vs[j], FMul(m, FPow(FSub(F(1), m), Len(vs) - j)))]
    IN  RangeSum(weighted, i, Len(vs))

\* the seeded recurrence in closed form: the seed decayed over the remaining
\* values plus each remaining value weighted by m and decayed since its index
EmaClosedForm(vs, p) ==
    LET m == FDiv(F(2), F(p + 1))
        seed == IF p = 0 THEN F(0) ELSE Mean(SubSeq(vs, 1, p))
    IN  FAdd(FMul(seed, FPow(FSub(F(1), m), Len(vs) - p)), EmaTail(vs, m, p + 1))

\* C4: calculateEMA(values, period) is the SMA over all values when
\* len(values) < period, and otherwise the SMA of the first `period` values
\* stepped by ema = value*m + ema*(1-m), m = 2/(period+1), once for each
\* remaining value in index order.
C4_EMASeededRecurrence ==
    fn = "calculateEMA" =>
        ret = IF Len(values) < period
              THEN (IF values = <<>> THEN F(0) ELSE Mean(values))
              ELSE EmaClosedForm(values, period)

C4_Witness ==
    /\ fn = "calculateEMA"
    /\ period >= 2
    /\ Len(values) >= period + 2
    /\ ret # Mean(values)
    /\ ret # values[Len(values)]
    /\ ret # Mean(SubSeq(values, 1, period))

\* C5: RSI lies in [0, RSIMaxValue] whenever len(values) >= period+1, period >= 1.
C5_RSIInRange ==
    (fn = "calculateRSI" /\ period >= 1 /\ Len(values) >= period + 1) =>
        FGe(ret, F(0)) /\ FLe(ret, config.RSIMaxValue)

\* a series with gains and losses, on a negative price level
C5_Witness ==
    /\ fn = "calculateRSI"
    /\ period >= 1
    /\ Len(values) >= period + 1
    /\ \E i \in 1..Len(values) : values[i].n < 0
    /\ FGt(ret, F(0))
    /\ FLt(ret, config.RSIMaxValue)
    /\ ret # config.RSINeutralValue

\* the change from values[i] to values[i+1] (1-based)
ChangeAt(vs, i) == FSub(vs[i + 1], vs[i])

\* the changes (1-based) that weigh in the smoothed averages: Wilder's
\* recurrence avg = (avg*(p-1) + x)/p keeps a share of every earlier change
\* when p >= 2, and only the latest change when p = 1
SmoothingWindow(vs, p) == IF p = 1 THEN {Len(vs) - 1} ELSE 1..(Len(vs) - 1)

\* C6: with len(values) >= period+1, RSI = RSIMaxValue when all changes in
\* the smoothing window are gains and RSI = RSINeutralValue when all of them
\* are zero; generally, when none of them is a loss (zero average loss) RSI
\* is the maximum if one of them is a gain (positive average gain) and the
\* neutral value otherwise.
C6_RSINoLoss ==
    (fn = "calculateRSI" /\ period >= 1 /\ Len(values) >= period + 1) =>
        LET idx == SmoothingWindow(values, period)
        IN  /\ (\A i \in idx : FGt(ChangeAt(values, i), F(0))) =>
                   ret = config.RSIMaxValue
            /\ (\A i \in idx : ChangeAt(values, i) = F(0)) =>
                   ret = config.RSINeutralValue
            /\ (\A i \in idx : FGe(ChangeAt(values, i), F(0))) =>
                   ret = IF \E i \in idx : FGt(ChangeAt(values, i), F(0))
                         THEN config.RSIMaxValue
                         ELSE config.RSINeutralValue
            /\ (\E i \in idx : FLt(ChangeAt(values, i), F(0))) =>
                   ret # config.RSIMaxValue

\* Scenario B: fourteen consecutive +1 changes, period 14, default parameters
C6_Witness ==
    /\ fn = "calculateRSI"
    /\ config = DefaultConfig
    /\ period = 14
    /\ Len(values) = 15
    /\ \A i \in 1..14 : ChangeAt(values, i) = F(1)
    /\ ret = F(100)

\* C7: with fewer than period+1 values calculateRSI returns exactly
\* RSINeutralValue, whatever the values are.
C7_RSIInsufficientHistory ==
    (fn = "calculateRSI" /\ Len(values) < period + 1) =>
        ret = config.RSINeutralValue

C7_Witness ==
    /\ fn = "calculateRSI"
    /\ Len(values) = period
    /\ period >= 2
    /\ values[1] # values[2]
    /\ ret = config.RSINeutralValue

\* C8: for every non-empty series the bands satisfy upper >= middle >= lower.
C8_BandsOrdered ==
    (fn = "calculateBollingerBands" /\ values # <<>>) =>
        FGe(ret.upper, ret.middle) /\ FGe(ret.middle, ret.lower)

\* C9: for every non-empty series the band width is strictly positive:
\* upper - lower > 0.
C9_PositiveBandWidth ==
    (fn = "calculateBollingerBands" /\ values # <<>>) =>
        FGt(FSub(ret.upper, ret.lower), F(0))

(***************************************************************************)
(* Properties of the public methods (checked under Spec)                   *)
(***************************************************************************)
\* C1: for an empty bar list Calculate, CalculateTrendAnalysis and
\* CalculateLevelsAnalysis each return nil (never a default-valued object),
\* and the latter two also return nil when handed a nil TechnicalData.
C1_NoResultForNoData ==
    /\ (Called("Calculate") /\ ohlcvList = <<>>) => tech = Nil
    /\ (Called("CalculateTrendAnalysis") /\ (ohlcvList = <<>> \/ tech = Nil)) =>
           trend = Nil
    /\ (Called("CalculateLevelsAnalysis") /\ (ohlcvList = <<>> \/ tech = Nil)) =>
           levels = Nil

\* Scenario D: the three methods called on the empty list
C1_Witness ==
    /\ ohlcvList = <<>>
    /\ calls = <<"Calculate", "CalculateTrendAnalysis", "CalculateLevelsAnalysis">>
    /\ tech = Nil
    /\ trend = Nil
    /\ levels = Nil

\* a result whose every float is a number: the call neither panicked nor
\* divided by zero
AllNumbers(rec) ==
    /\ rec # Nil
    /\ rec # Panic
    /\ \A k \in DOMAIN rec : IsNum(rec[k])

\* C2: for every non-empty bar list Calculate, CalculateTrendAnalysis and
\* CalculateLevelsAnalysis return a result and never fault: no index outside
\* the list, no division by zero.
C2_NoFault ==
    (Len(ohlcvList) >= 1 /\ Called("Calculate")) =>
        /\ AllNumbers(tech)
        /\ Called("CalculateTrendAnalysis") =>
               trend # Nil /\ trend # Panic /\ IsNum(trend.RSILevel)
        /\ Called("CalculateLevelsAnalysis") => AllNumbers(levels)

\* a preset, more bars than its MACD, Bollinger, RSI, SMA20 and lookback
\* periods, flat prices, all-zero volume
C2_Witness ==
    /\ config \in Presets
    /\ Len(ohlcvList) > config.MACDSlowPeriod
    /\ Len(ohlcvList) > config.BBPeriod
    /\ Len(ohlcvList) > config.RSIPeriod
    /\ Len(ohlcvList) > config.SMA20Period
    /\ Len(ohlcvList) > config.SupportResistanceLookback
    /\ \A i \in 1..Len(ohlcvList) :
           ohlcvList[i].Volume = F(0) /\ ohlcvList[i].Close = ohlcvList[1].Close
    /\ ohlcvList[1].Close # F(0)
    /\ Called("CalculateLevelsAnalysis")
    /\ AllNumbers(tech)
    /\ AllNumbers(levels)
    /\ trend # Nil

\* C10: BBPosition = (lastClose - lower)/(upper - lower) when upper - lower
\* exceeds BBMinThreshold, and exactly BBDefaultPos when upper - lower is at
\* most BBMinThreshold (nothing is divided by the width then).
C10_BandPosition ==
    (Called("Calculate") /\ tech # Nil /\ tech # Panic) =>
        LET width == FSub(tech.BBUpper, tech.BBLower)
            lastClose == ohlcvList[Len(ohlcvList)].Close
        IN  /\ FGt(width, config.BBMinThreshold) =>
                   tech.BBPosition = FDiv(FSub(lastClose, tech.BBLower), width)
            /\ FLe(width, config.BBMinThreshold) =>
                   tech.BBPosition = config.BBDefaultPos

\* a zero band width: dividing by it would not give a number
C10_Witness ==
    /\ Called("Calculate")
    /\ tech # Nil
    /\ tech # Panic
    /\ tech.BBUpper = tech.BBLower
    /\ tech.BBPosition = config.BBDefaultPos

\* the closes of the list are n times the same value
IdenticalCloses(n) ==
    /\ Len(ohlcvList) = n
    /\ \A i \in 1..n : ohlcvList[i].Close = ohlcvList[1].Close

\* Scenario C: fifteen identical closes, default parameters (Bollinger period 20)
ScenarioC ==
    /\ config = DefaultConfig
    /\ IdenticalCloses(15)
    /\ Called("Calculate")
    /\ tech # Nil
    /\ tech # Panic

HasSnapshot == Called("Calculate") /\ tech # Nil /\ tech # Panic

LastClose == ohlcvList[Len(ohlcvList)].Close

\* C12 as stated: the band position of the Snapshot lies in [0, 1] for every
\* non-empty close series.
C12_PositionNormalized ==
    HasSnapshot => FGe(tech.BBPosition, F(0)) /\ FLe(tech.BBPosition, F(1))

\* C12 amended: the band position is not clamped: it lies in [0, 1] when the
\* band is no wider than BBMinThreshold (the default position) or the last
\* close lies within the bands, is greater than 1 when the last close is
\* above the upper band and less than 0 when it is below the lower band.
C12_PositionRange ==
    HasSnapshot =>
        LET width == FSub(tech.BBUpper, tech.BBLower)
            wide == FGt(width, config.BBMinThreshold)
        IN  /\ (~wide \/ (FLe(tech.BBLower, LastClose) /\ FLe(LastClose, tech.BBUpper))) =>
                   FGe(tech.BBPosition, F(0)) /\ FLe(tech.BBPosition, F(1))
            /\ (wide /\ FGt(LastClose, tech.BBUpper)) => FGt(tech.BBPosition, F(1))
            /\ (wide /\ FLt(LastClose, tech.BBLower)) => FLt(tech.BBPosition, F(0))

\* a preset, a flat series that ends in a jump above the upper band
C12_Witness ==
    /\ HasSnapshot
    /\ config \in Presets
    /\ FGt(LastClose, tech.BBUpper)
    /\ FGt(tech.BBPosition, F(1))

\* CalculateLevelsAnalysis has returned a Levels Analysis for the list
HasLevels == Called("CalculateLevelsAnalysis") /\ levels # Nil /\ levels # Panic

\* C13: whenever Resistance and Support come from a common non-empty lookback
\* window, Resistance >= Support, in the Snapshot and in the Levels Analysis,
\* for every bar list the methods accept.
C13_ResistanceAboveSupport ==
    /\ (HasSnapshot /\ lookbackPeriod(config, Len(ohlcvList)) > 0) =>
           FGe(tech.Resistance, tech.Support)
    /\ (HasLevels /\ lookbackPeriod(config, Len(ohlcvList)) > 0) =>
           FGe(levels.StaticResistance, levels.StaticSupport)

\* the (1-based) positions of the last min(SupportResistanceLookback, number
\* of bars) bars
LevelWindow ==
    LET n == Len(ohlcvList)
        w == IF n < config.SupportResistanceLookback
             THEN n ELSE config.SupportResistanceLookback
    IN  (n - w + 1)..n

\* r is the greatest High of the bars at the positions idx
IsMaxHigh(r, idx) ==
    /\ \E i \in idx : ohlcvList[i].High = r
    /\ \A i \in idx : FLe(ohlcvList[i].High, r)

\* s is the least Low of the bars at the positions idx
IsMinLow(s, idx) ==
    /\ \E i \in idx : ohlcvList[i].Low = s
    /\ \A i \in idx : FGe(ohlcvList[i].Low, s)

\* C14: Resistance is the maximum High and Support the minimum Low over
\* exactly the last min(SupportResistanceLookback, number of bars) bars, in
\* the Snapshot and in the Levels Analysis; bars before that window do not
\* influence either level.
C14_LevelsOverWindow ==
    /\ HasSnapshot =>
           IsMaxHigh(tech.Resistance, LevelWindow) /\ IsMinLow(tech.Support, LevelWindow)
    /\ HasLevels =>
           /\ IsMaxHigh(levels.StaticResistance, LevelWindow)
           /\ IsMinLow(levels.StaticSupport, LevelWindow)

\* a bar before the window has a higher High than the resistance and
\* another a lower Low than the support
C14_Witness ==
    /\ HasSnapshot
    /\ HasLevels
    /\ \E i \in 1..Len(ohlcvList) :
           i \notin LevelWindow /\ FGt(ohlcvList[i].High, tech.Resistance)
    /\ \E i \in 1..Len(ohlcvList) :
           i \notin LevelWindow /\ FLt(ohlcvList[i].Low, levels.StaticSupport)

\* C15: in the Levels Analysis PriceVsResistance = (resistance - price)/price*100
\* when price > 0 and PriceVsSupport = (price - support)/support*100 when
\* support > 0; with a non-positive denominator the distance is 0 and nothing
\* is divided (the distance is a number).
C15_LevelDistances ==
    HasLevels =>
        LET price == LastClose
            resistance == levels.StaticResistance
            support == levels.StaticSupport
        IN  /\ FGt(price, F(0)) =>
                   levels.PriceVsResistance =
                       FMul(FDiv(FSub(resistance, price), price), F(100))
            /\ FLe(price, F(0)) => levels.PriceVsResistance = F(0)
            /\ FGt(support, F(0)) =>
                   levels.PriceVsSupport =
                       FMul(FDiv(FSub(price, support), support), F(100))
            /\ FLe(support, F(0)) => levels.PriceVsSupport = F(0)
            /\ IsNum(levels.PriceVsResistance)
            /\ IsNum(levels.PriceVsSupport)

\* a positive price over a support of 0: one distance computed, one guarded
C15_Witness ==
    /\ HasLevels
    /\ FGt(LastClose, F(0))
    /\ levels.StaticSupport = F(0)
    /\ levels.PriceVsSupport = F(0)
    /\ FGt(levels.PriceVsResistance, F(0))

LastVolume == ohlcvList[Len(ohlcvList)].Volume

\* C16: VolumeRatio = lastVolume / VolumeMA when VolumeMA > 0 and exactly
\* DefaultVolumeRatio otherwise; an all-zero volume sequence yields
\* VolumeMA = 0 and VolumeRatio = DefaultVolumeRatio.
C16_VolumeRatio ==
    HasSnapshot =>
        /\ FGt(tech.VolumeMA, F(0)) =>
               tech.VolumeRatio = FDiv(LastVolume, tech.VolumeMA)
        /\ FLe(tech.VolumeMA, F(0)) => tech.VolumeRatio = config.DefaultVolumeRatio
        /\ (\A i \in 1..Len(ohlcvList) : ohlcvList[i].Volume = F(0)) =>
               /\ tech.VolumeMA = F(0)
               /\ tech.VolumeRatio = config.DefaultVolumeRatio

\* Scenario E: a volume sequence of zeros under the default parameters
C16_Witness ==
    /\ HasSnapshot
    /\ config = DefaultConfig
    /\ Len(ohlcvList) >= 2
    /\ \A i \in 1..Len(ohlcvList) : ohlcvList[i].Volume = F(0)
    /\ tech.VolumeMA = F(0)
    /\ tech.VolumeRatio = F(1)

Closes == extractCloses(ohlcvList)

\* C17: for any Parameter Set the MACD line of the Snapshot is
\* EMA(close, MACDFastPeriod) - EMA(close, MACDSlowPeriod), and the histogram
\* is line - signal.
C17_MACDLine ==
    HasSnapshot =>
        /\ tech.MACD = FSub(calculateEMA(Closes, config.MACDFastPeriod),
                            calculateEMA(Closes, config.MACDSlowPeriod))
        /\ tech.MACDHistogram = FSub(tech.MACD, tech.MACDSignal)

\* the first k values of s
Prefix(s, k) == SubSeq(s, 1, k)

\* EMA(fast) - EMA(slow) over the prefix of length len
PrefixMACD(closes, fast, slow, len) ==
    FSub(calculateEMA(Prefix(closes, len), fast), calculateEMA(Prefix(closes, len), slow))

\* the history array: one element per prefix length slow, slow+1, ..., n
PrefixHistory(closes, fast, slow) ==
    [j \in 1..(Len(closes) - slow + 1) |-> PrefixMACD(closes, fast, slow, slow + j - 1)]

\* C18: with at least MACDSlowPeriod closes the signal line is the EMA
\* (period = MACDSignalPeriod, with the bootstrap rule of the EMA) of the
\* history array whose k-th element (k = 0, 1, ...) is EMA(fast) - EMA(slow)
\* over the close prefix of length slow + k, for every prefix length from
\* slow up to the whole series, in increasing prefix order.
C18_SignalOverPrefixHistory ==
    (HasSnapshot /\ Len(ohlcvList) >= config.MACDSlowPeriod) =>
        tech.MACDSignal =
            calculateEMA(PrefixHistory(Closes, config.MACDFastPeriod, config.MACDSlowPeriod),
                         config.MACDSignalPeriod)

\* a history longer than the signal period (the recurrence runs) whose
\* signal differs from the current MACD value and from 0
C18_Witness ==
    /\ HasSnapshot
    /\ Len(ohlcvList) >= config.MACDSlowPeriod + config.MACDSignalPeriod
    /\ tech.MACDSignal # F(0)
    /\ tech.MACDSignal # PrefixMACD(Closes, config.MACDFastPeriod, config.MACDSlowPeriod,
                                     Len(ohlcvList))

\* CalculateTrendAnalysis has returned a Classification for the list
HasTrend == Called("CalculateTrendAnalysis") /\ trend # Nil /\ trend # Panic

\* C19: the Classification is a total binary mapping: short-term is up iff
\* price > SMA20, else down; medium-term is up iff price > SMA50, else down;
\* the oscillator direction is bullish iff MACD > signal, else bearish;
\* overall is strong up iff both labels are up, strong down iff both are
\* down and ranging otherwise.  No other label occurs, and equality maps to
\* down / bearish.
C19_Classification ==
    HasTrend =>
        /\ trend.ShortTerm = (IF FGt(LastClose, tech.SMA20) THEN LabelUp ELSE LabelDown)
        /\ trend.MediumTerm = (IF FGt(LastClose, tech.SMA50) THEN LabelUp ELSE LabelDown)
        /\ trend.MACD = (IF FGt(tech.MACD, tech.MACDSignal) THEN "bullish" ELSE "bearish")
        /\ trend.Overall \in {LabelStrongUp, LabelStrongDown, LabelRanging}
        /\ trend.Overall = LabelStrongUp <=>
               (trend.ShortTerm = LabelUp /\ trend.MediumTerm = LabelUp)
        /\ trend.Overall = LabelStrongDown <=>
               (trend.ShortTerm = LabelDown /\ trend.MediumTerm = LabelDown)
        /\ LastClose = tech.SMA20 => trend.ShortTerm = LabelDown
        /\ LastClose = tech.SMA50 => trend.MediumTerm = LabelDown
        /\ tech.MACD = tech.MACDSignal => trend.MACD = "bearish"

\* a price equal to SMA20 but above SMA50, and a MACD equal to its signal
C19_Witness ==
    /\ HasTrend
    /\ LastClose = tech.SMA20
    /\ FGt(LastClose, tech.SMA50)
    /\ tech.MACD = tech.MACDSignal
    /\ trend.ShortTerm = LabelDown
    /\ trend.MediumTerm = LabelUp
    /\ trend.MACD = "bearish"
    /\ trend.Overall = LabelRanging

(***************************************************************************)
(* The MACD history and its incremental computation (checked under SpecFn) *)
(***************************************************************************)
\* a running EMA of period p after one more close: nothing before p closes
\* are seen, the SMA of the first p closes at the p-th, one step afterwards
RunningEMA(closes, p, seen, ema) ==
    IF seen < p THEN ema
    ELSE IF seen = p THEN Mean(Prefix(closes, p))
    ELSE LET m == FDiv(F(2), F(p + 1))
         IN  FAdd(FMul(closes[seen], m), FMul(ema, FSub(F(1), m)))

\* one pass over the closes keeping both running EMAs; st holds the number
\* of closes seen, the two EMAs and the history so far
RECURSIVE IncrementalLoop(_, _, _, _)
IncrementalLoop(closes, f, slow, st) ==
    IF st.seen >= Len(closes) THEN st.history
    ELSE LET seen == st.seen + 1
             emaFast == RunningEMA(closes, f, seen, st.emaFast)
             emaSlow == RunningEMA(closes, slow, seen, st.emaSlow)
         IN  IncrementalLoop(closes, f, slow,
                 [seen |-> seen, emaFast |-> emaFast, emaSlow |-> emaSlow,
                  history |-> IF seen >= slow
                              THEN Append(st.history, FSub(emaFast, emaSlow))
                              ELSE st.history])

\* the O(n) history: both EMAs start from the SMA of no values (0); a slow
\* period of 0 makes the empty prefix the first entry
IncrementalHistory(closes, f, slow) ==
    IncrementalLoop(closes, f, slow,
        [seen |-> 0, emaFast |-> F(0), emaSlow |-> F(0),
         history |-> IF slow = 0 THEN <<F(0)>> ELSE <<>>])

\* C20: for every close series with at least `slow` closes and every
\* fast <= slow, the history that calculateMACDValues builds by recomputing
\* both EMAs over every prefix of length slow..n equals, element for element,
\* the history of the incremental recurrence that keeps a running fast and a
\* running slow EMA, each seeded with the SMA of its first `period` values
\* and stepped once per further close.
C20_IncrementalHistory ==
    (fn = "calculateMACDValues" /\ fastPeriod <= period /\ Len(values) >= period) =>
        LET incremental == IncrementalHistory(values, fastPeriod, period)
        IN  /\ Len(ret) = Len(values) - period + 1
            /\ Len(incremental) = Len(ret)
            /\ \A k \in 1..Len(ret) : ret[k] = incremental[k]

\* fast 1, slow 2: a history of two different non-zero elements, the second
\* of them after a step of the slow EMA
C20_Witness ==
    /\ fn = "calculateMACDValues"
    /\ fastPeriod = 1
    /\ period = 2
    /\ Len(values) >= 3
    /\ Len(ret) = Len(values) - 1
    /\ ret[1] # ret[2]
    /\ ret[1] # F(0)
    /\ ret[2] # F(0)

\* the history array handed to the signal line for the list of the state
SignalHistory == calculateMACDValues(Closes, config.MACDFastPeriod, config.MACDSlowPeriod)

\* C21: for every non-empty close series, shorter than the slow period or
\* not, the last element of the MACD history that feeds the signal line
\* equals the MACD line of the same Snapshot (stated for the Parameter Sets
\* whose top-level EMA periods are the MACD periods).
C21_HistoryEndsWithMACD ==
    (/\ HasSnapshot
     /\ config.EMA12Period = config.MACDFastPeriod
     /\ config.EMA26Period = config.MACDSlowPeriod) =>
        SignalHistory[Len(SignalHistory)] = tech.MACD

(***************************************************************************)
(* Properties of the risk manager (checked under SpecRisk)                 *)
(***************************************************************************)
\* a step from one monitored position to a monitored position with the same
\* side and entry price, the exchange holding its position throughout
SamePositionStep ==
    /\ currentPosition # 0
    /\ currentPosition' # 0
    /\ exchPosition.open
    /\ exchPosition' = exchPosition
    /\ heap'[currentPosition'].Side = heap[currentPosition].Side
    /\ heap'[currentPosition'].EntryPrice = heap[currentPosition].EntryPrice

\* C22: for a position that stays open with the same side and entry price,
\* the monitored position keeps the StopLoss and TakeProfit computed at
\* first registration, and its StopLoss, TakeProfit and TrailingStop, once
\* non-zero, never revert to zero, across every UpdatePosition call the
\* trading cycle makes with a freshly fetched position object.
C22_LevelsSurviveUpdate ==
    [][SamePositionStep =>
        LET old == heap[currentPosition]
            new == heap'[currentPosition']
        IN  /\ new.StopLoss = old.StopLoss
            /\ new.TakeProfit = old.TakeProfit
            /\ old.TrailingStop # F(0) => new.TrailingStop # F(0)]_vars

\* the price a check observed is at or beyond the trailing stop of pos
BeyondTrailingStop(pos, currentPrice) ==
    /\ FGt(pos.TrailingStop, F(0))
    /\ \/ pos.Side = "long" /\ FLe(currentPrice, pos.TrailingStop)
       \/ pos.Side = "short" /\ FGe(currentPrice, pos.TrailingStop)

\* C23: with trailing stop enabled, a check that observes the price at or
\* beyond the monitored position's trailing stop (TrailingStop > 0) goes on
\* to place a closing order, whether or not the fixed stop-loss is enabled.
C23_TrailingStopCloses ==
    [][\A t \in Checkers :
        (/\ checker[t].pc = "decide"
         /\ checker'[t].pc # "decide"
         /\ rmConfig.EnableTrailingStop
         /\ BeyondTrailingStop(heap[checker[t].pos], checker[t].currentPrice)) =>
            checker'[t].pc = "close"]_vars

\* no order is placed for a Position object for which an earlier order was
\* filled
OneClosingOrder ==
    \A i \in 1..Len(orders) : \A j \in (i + 1)..Len(orders) :
        orders[i].pos = orders[j].pos => ~orders[i].ok

\* a goroutine that clears the monitored position clears the position it
\* closed, not the registration of a position opened since (the exchange
\* holds a position again and another object is registered for it)
ClearsOwnPosition ==
    \A t \in Checkers :
        (checker[t].pc = "clear" /\ checker'[t].pc # "clear") =>
            ~(exchPosition.open /\ currentPosition \notin {0, checker[t].pos})

\* C24: for one monitored position the risk manager issues at most one
\* closing order under every interleaving of the startup check, the monitor
\* loop and UpdatePosition, and clearing the monitored position after a
\* close never discards a different position registered in the meantime.
C24_OneCloseAndOwnClear ==
    [][OneClosingOrder' /\ ClearsOwnPosition]_vars

(***************************************************************************)
(* Properties of the trading cycle (checked under SpecBot)                 *)
(***************************************************************************)
\* executeTrade has returned
Executed == botPc = "done"

\* C25: executeTrade calls PlaceOrder only when test mode is off, the
\* signal's confidence is not LOW and the signal is BUY or SELL; in test
\* mode, for a LOW confidence signal, for HOLD and for the fallback signal
\* it returns without calling PlaceOrder.
C25_OrdersOnlyWhenLive ==
    Executed =>
        /\ placed # <<>> =>
            /\ ~botConfig.TestMode
            /\ signal.Confidence # "LOW"
            /\ signal.Signal \in {"BUY", "SELL"}
        /\ (\/ botConfig.TestMode
            \/ signal.Confidence = "LOW"
            \/ signal.Signal = "HOLD"
            \/ signal.IsFallback) => placed = <<>>

\* a live BUY against a short position: the closing and the opening order
C25_Witness ==
    /\ Executed
    /\ signal.Signal = "BUY"
    /\ placed = <<Order("buy", TRUE), Order("buy", FALSE)>>

\* C30: for every bar list the exchange returns, fetchMarketData returns an
\* error or market data without faulting; a list of exactly one bar causes
\* no out-of-range read when the previous bar is looked up.
C30_FetchNeverFaults == marketData # Panic

(***************************************************************************)
(* Properties of the session contexts (checked under SpecSession)          *)
(***************************************************************************)
\* the number of signals of one kind among the recorded ones
CountKind(s, kind) == Cardinality({i \in 1..Len(s) : s[i].Signal = kind})

\* the shorter of two lengths
Shorter(a, b) == IF a < b THEN a ELSE b

\* C26: after any sequence of session updates across trading pairs, each
\* pair's signal history holds at most 30 signals, namely that pair's most
\* recent recorded signals in arrival order; its statistics count that
\* pair's recorded signals only, so updating one pair's session leaves every
\* other pair's history and statistics as they were.
C26_SessionHistory ==
    \A p \in TradingPairs :
        sessions[p] # Nil =>
            /\ Len(sessions[p].SignalHistory) <= 30
            /\ sessions[p].SignalHistory =
                   LastN(recorded[p], Shorter(30, Len(recorded[p])))
            /\ sessions[p].Stats =
                   [BuyCount |-> CountKind(recorded[p], "BUY"),
                    SellCount |-> CountKind(recorded[p], "SELL"),
                    HoldCount |-> CountKind(recorded[p], "HOLD"),
                    Total |-> Len(recorded[p])]

\* one pair has dropped its two oldest signals while the other pair still
\* holds all three of its own
C26_Witness ==
    /\ Len(recorded["BTC-USDT"]) = 32
    /\ Len(sessions["BTC-USDT"].SignalHistory) = 30
    /\ sessions["BTC-USDT"].SignalHistory[1].Timestamp = 3
    /\ Len(recorded["ETH-USDT"]) = 3
    /\ sessions["ETH-USDT"].SignalHistory = recorded["ETH-USDT"]

(***************************************************************************)
(* Properties of the scheduler (checked under SpecSched and SpecAlign)     *)
(***************************************************************************)
\* the run goroutines that have not returned
LiveLoops == {i \in 1..Len(loops) : Live(i)}

\* C27: for any sequence of Start and Stop calls, between the calls
\* IsRunning is true exactly while the run loop is live: there is never a
\* second loop, no execution is under way once Stop has returned, and after
\* a Start that succeeds following a Stop the loop stays live to execute the
\* task periodically.
C27_RunningWhileLoopLive ==
    /\ clientPc = "idle" => (sRunning <=> LiveLoops # {})
    /\ Cardinality(LiveLoops) <= 1
    /\ (clientPc = "idle" /\ ~sRunning) => \A i \in 1..Len(loops) : loops[i] # "task"

\* the callbacks an execution is to trigger given the handlers that are set
ExpectedCallbacks(outcome) ==
    IF outcome = "nil"
    THEN IF schedConfig.hasOnComplete THEN <<"onComplete">> ELSE <<>>
    ELSE IF schedConfig.hasOnError THEN <<"onError">> ELSE <<>>

\* no two executions at once
NoOverlap == Cardinality({i \in 1..Len(loops) : loops[i] = "task"}) <= 1

\* a run goroutine returns only after cancel()
LoopEndsOnlyOnCancel == \A i \in 1..Len(loops) : loops[i] = "returned" => cancelled

IsAlignList(l) ==
    /\ Len(l) >= 1
    /\ l[1] = 0
    /\ \A k \in 1..Len(l) : l[k] >= 0 /\ l[k] <= 59
    /\ \A k \in 1..(Len(l) - 1) : l[k] < l[k + 1]

\* C29: for every ScheduleIntervalMinutes value (0, negatives and values
\* above 60 included) calculateAlignPoints terminates (it appends at most
\* one point per minute of the hour) and the list it returns equals the one
\* calculateAlignMinutes gives the scheduler: strictly increasing minutes in
\* [0,59] starting at 0.
C29_AlignPointsAgree ==
    /\ Len(points) <= 60
    /\ alignPc = "returned" =>
          /\ points = calculateAlignMinutes(intervalMinutes)
          /\ IsAlignList(points)

====
